---- MODULE Spec2Model ----
(***************************************************************************)
(* csvql: a directory of CSV/TSV files kept in sync with SQLite tables.    *)
(*                                                                         *)
(*   loader   name folding, ResolveTableNames, column sanitizing,          *)
(*            ScanDirectory, ParseFile                                     *)
(*   csvql    New, Scan and Close                                          *)
(*   db       Manager: LoadFile, RemoveTable, NeedsUpdate, ListTables, the *)
(*            _csvql_metadata index mirrored in Manager.metadata, and the  *)
(*            read/write lock m.mu that every method takes                 *)
(*   watcher  Watcher: the watched directories, event intake, debounce     *)
(*            sweep, processFile tasks, Start and Stop                     *)
(*                                                                         *)
(* Strings that the program inspects character by character (paths, table  *)
(* names, headers, fields) are sequences of one-character strings.         *)
(*                                                                         *)
(* Time is counted in units of 100 ms.  The program only ever subtracts a  *)
(* recorded time from the current time, so a recorded time is kept as its  *)
(* age (the current time minus the recorded time), which grows as time     *)
(* passes and stops growing once it exceeds every threshold it is compared *)
(* with.                                                                   *)
(***************************************************************************)
EXTENDS Integers, Sequences, FiniteSets, TLC

VARIABLES
    tables,          \* SQLite data tables: tableName -> [columns, rows]
    csvql_metadata,  \* table _csvql_metadata: tableName -> [file_path, mod_time]
    metadata,        \* Manager.metadata: tableName -> modTime
    lastOp,          \* the last Manager call made and what it returned
    files,           \* the directory tree: path -> [content, mtime]
    nWrites,         \* file writes so far (the filesystem's clock for mtime)
    ticker,          \* time left until ticker.C delivers, in units of 100 ms
    pending,         \* watch(): pending map, path -> age of the recorded time
    watchPc,         \* the watch goroutine: "idle", "running", "exited"
    done,            \* Watcher.done is closed
    wg,              \* Watcher.wg counter
    stopPc,          \* Stop(): "none", "waiting", "returned", "panicked"
    fsClosed,        \* fsWatcher.Close() has run
    tasks,           \* the processFile goroutines, in dispatch order
    callbacks,       \* the onChange calls made, in order
    events,          \* fsnotify events not yet received by watch()
    hEvents,         \* history: path -> [span, age, clean] of its events
    hStamp,          \* history: tableName -> ModTime of its last successful load
    dirs,            \* the directories of the watched tree
    watchSet,        \* the directories fsWatcher watches
    mu,              \* Manager.mu: [writer, readers], goroutine numbers
    calls            \* goroutines calling the Manager: [op, arg, pc, whole]

storeVars == <<tables, csvql_metadata, metadata>>
watchVars == <<files, nWrites, ticker, pending, watchPc, done, wg,
               stopPc, fsClosed, tasks, callbacks, events, hEvents>>
dirVars == <<dirs, watchSet>>
muVars == <<mu, calls>>
vars == <<tables, csvql_metadata, metadata, lastOp, files, nWrites, ticker,
          pending, watchPc, done, wg, stopPc, fsClosed, tasks, callbacks,
          events, hEvents, hStamp, dirs, watchSet, mu, calls>>

----------------------------------------------------------------------------
(* Bounds                                                                  *)

MaxEvents == 2
MaxTasks == 2
MaxCols == 2
MaxRows == 2
MaxStamp == 1
MaxOps == 3
MaxPaths == 3
MaxResolves == 2
MaxHeaders == 3
MaxRuns == 2
MaxChanges == 1
MaxCalls == 2

----------------------------------------------------------------------------
(* Generic helpers on functions and character sequences                    *)

NoErr == "nil"

Put(f, k, v) == [x \in (DOMAIN f) \cup {k} |-> IF x = k THEN v ELSE f[x]]

Del(f, k) == [x \in (DOMAIN f) \ {k} |-> f[x]]

Upper == <<"A","B","C","D","E","F","G","H","I","J","K","L","M",
           "N","O","P","Q","R","S","T","U","V","W","X","Y","Z">>

LowerLetters == <<"a","b","c","d","e","f","g","h","i","j","k","l","m",
                  "n","o","p","q","r","s","t","u","v","w","x","y","z">>

Digits == <<"0","1","2","3","4","5","6","7","8","9">>

IsDigit(c) == \E i \in 1..10 : Digits[i] = c

ToLowerChar(c) ==
    IF \E i \in 1..26 : Upper[i] = c
    THEN LowerLetters[CHOOSE i \in 1..26 : Upper[i] = c]
    ELSE c

ToLower(s) == [i \in 1..Len(s) |-> ToLowerChar(s[i])]

ReplaceAll(s, old, new) == [i \in 1..Len(s) |-> IF s[i] = old THEN new ELSE s[i]]

RemoveAll(s, old) == SelectSeq(s, LAMBDA c : c # old)

HasPrefix(s, p) == Len(s) >= Len(p) /\ SubSeq(s, 1, Len(p)) = p

HasSuffix(s, x) == Len(s) >= Len(x) /\ SubSeq(s, Len(s) - Len(x) + 1, Len(s)) = x

TrimSuffix(s, x) == IF HasSuffix(s, x) THEN SubSeq(s, 1, Len(s) - Len(x)) ELSE s

Range(s) == {s[i] : i \in 1..Len(s)}

\* The characters of names and paths in the order of their byte values
ByteOrder == <<" ", ".", "/">> \o Digits \o Upper \o <<"_">> \o LowerLetters

Code(c) == CHOOSE i \in 1..Len(ByteOrder) : ByteOrder[i] = c

\* Byte-wise comparison of two strings (SQLite's BINARY collation)
StringLess(a, b) ==
    \E k \in 1..Len(b) :
        /\ \A j \in 1..(k - 1) : j <= Len(a) /\ a[j] = b[j]
        /\ \/ k = Len(a) + 1
           \/ k <= Len(a) /\ Code(a[k]) < Code(b[k])

\* The rows of an ORDER BY over a set of distinct names
RECURSIVE SortedNames(_)
SortedNames(S) ==
    IF S = {} THEN <<>>
    ELSE CHOOSE out \in { <<first>> \o SortedNames(S \ {first}) :
                            first \in {x \in S : \A y \in S \ {x} : StringLess(x, y)} } : TRUE

RECURSIVE Itoa(_)
Itoa(n) == IF n < 10 THEN <<Digits[n + 1]>>
           ELSE Itoa(n \div 10) \o <<Digits[(n % 10) + 1]>>

Separator == "/"

\* filepath.Base for a clean, non-empty path without a trailing separator
Base(path) ==
    LET seps == {i \in 1..Len(path) : path[i] = Separator}
    IN IF seps = {} THEN path
       ELSE SubSeq(path, (CHOOSE i \in seps : \A j \in seps : j <= i) + 1, Len(path))

\* filepath.Dir for a clean path with a separator before its last element
Dir(path) ==
    LET seps == {i \in 1..Len(path) : path[i] = Separator}
    IN SubSeq(path, 1, (CHOOSE i \in seps : \A j \in seps : j <= i) - 1)

\* filepath.Ext: from the last dot of the last path element, or empty
Ext(path) ==
    LET b == Base(path)
        dots == {i \in 1..Len(b) : b[i] = "."}
    IN IF dots = {} THEN <<>>
       ELSE SubSeq(b, CHOOSE i \in dots : \A j \in dots : j <= i, Len(b))

\* filepath.Rel(rootDir, filePath) for a path below rootDir; err otherwise
Rel(rootDir, filePath) ==
    IF HasPrefix(filePath, rootDir \o <<Separator>>) /\ Len(filePath) > Len(rootDir) + 1
    THEN [err |-> FALSE, path |-> SubSeq(filePath, Len(rootDir) + 2, Len(filePath))]
    ELSE [err |-> TRUE, path |-> <<>>]

----------------------------------------------------------------------------
(* package loader                                                          *)

\* A folding that leaves a leading digit as it is
sanitizeKeepsDigit(name) ==
    LET n1 == ReplaceAll(name, Separator, "_")
        n2 == ReplaceAll(n1, "-", "_")
        n3 == ReplaceAll(n2, " ", "_")
        n4 == ReplaceAll(n3, ".", "_")
    IN ToLower(n4)

sanitizeTableName(name) ==
    LET n1 == ReplaceAll(name, Separator, "_")
        n2 == ReplaceAll(n1, "-", "_")
        n3 == ReplaceAll(n2, " ", "_")
        n4 == ReplaceAll(n3, ".", "_")
        n5 == IF Len(n4) > 0 /\ IsDigit(n4[1]) THEN <<"_">> \o n4 ELSE n4
    IN ToLower(n5)

GetBaseTableName(filePath) ==
    LET base == Base(filePath)
        ext == Ext(base)
    IN sanitizeTableName(TrimSuffix(base, ext))

\* The full name taken from the file name alone, directories left out
FullNameWithoutDirs(filePath, rootDir) ==
    sanitizeTableName(TrimSuffix(Base(filePath), Ext(filePath)))

GetFullTableName(filePath, rootDir) ==
    LET rel == Rel(rootDir, filePath)
        relPath == IF rel.err THEN Base(filePath) ELSE rel.path
        ext == Ext(relPath)
    IN sanitizeTableName(TrimSuffix(relPath, ext))

GetTableName(filePath, rootDir) == GetFullTableName(filePath, rootDir)

\* A resolver that gives every path its base name, shared or not
ResolveAlwaysBase(filePaths, rootDir) ==
    [path \in {filePaths[i] : i \in 1..Len(filePaths)} |-> GetBaseTableName(path)]

\* A resolver in which the first path of the list that claims a base name
\* keeps it and only the later ones get their full names
ResolveFirstWins(filePaths, rootDir) ==
    LET paths == {filePaths[i] : i \in 1..Len(filePaths)}
        first(path) == CHOOSE i \in 1..Len(filePaths) :
                          /\ GetBaseTableName(filePaths[i]) = GetBaseTableName(path)
                          /\ \A j \in 1..Len(filePaths) :
                                GetBaseTableName(filePaths[j]) = GetBaseTableName(path) => i <= j
    IN [path \in paths |->
          IF filePaths[first(path)] = path THEN GetBaseTableName(path)
          ELSE GetFullTableName(path, rootDir)]

\* ResolveTableNames: the first pass groups the paths by base name, the
\* second gives a path its full name when its group has more than one path
ResolveTableNames(filePaths, rootDir) ==
    LET paths == {filePaths[i] : i \in 1..Len(filePaths)}
        baseNames == {GetBaseTableName(path) : path \in paths}
        baseNameCount == [baseName \in baseNames |->
                            SelectSeq(filePaths, LAMBDA path : GetBaseTableName(path) = baseName)]
    IN [path \in paths |->
          LET baseName == GetBaseTableName(path)
          IN IF Len(baseNameCount[baseName]) > 1
             THEN GetFullTableName(path, rootDir)
             ELSE baseName]

SanitizeColumnName(name) ==
    LET s1 == ReplaceAll(name, " ", "_")
        s2 == ReplaceAll(s1, "-", "_")
        s3 == ReplaceAll(s2, ".", "_")
        s4 == RemoveAll(s3, "(")
        s5 == RemoveAll(s4, ")")
        s6 == IF Len(s5) > 0 /\ IsDigit(s5[1]) THEN <<"_">> \o s5 ELSE s5
        s7 == IF s6 = <<>> THEN <<"c","o","l","u","m","n">> ELSE s6
    IN ToLower(s7)

\* A file on disk is the sequence of records csv.Reader.ReadAll would return
\* for it.  ReadAll fails when a record's field count differs from the first
\* record's (FieldsPerRecord is left 0); ParseFile fails on no records.
ReadAllErr(content) == \E i \in 1..Len(content) : Len(content[i]) # Len(content[1])

ParseFile(filePath, rootDir, fs) ==
    IF filePath \notin DOMAIN fs THEN [err |-> "open"]
    ELSE IF ReadAllErr(fs[filePath].content) THEN [err |-> "parse"]
    ELSE IF Len(fs[filePath].content) = 0 THEN [err |-> "empty"]
    ELSE [err |-> NoErr,
          Path |-> filePath,
          TableName |-> GetFullTableName(filePath, rootDir),
          Headers |-> Head(fs[filePath].content),
          ModTime |-> fs[filePath].mtime,
          Records |-> Tail(fs[filePath].content)]

----------------------------------------------------------------------------
(* package db: Manager                                                     *)
(*                                                                         *)
(* A Manager value m is [tables, csvql_metadata, metadata].  Every method  *)
(* holds m.mu for its whole body, so a method is one atomic step.  failAt  *)
(* names the SQL statement at which the engine reports an error ("none":   *)
(* the engine reports none).                                               *)

Manager == [tables |-> tables, csvql_metadata |-> csvql_metadata, metadata |-> metadata]

\* Reload only when the file is newer than what is stored
NeedsUpdateIfNewer(m, tableName, modTime) ==
    LET exists == tableName \in DOMAIN m.metadata
    IN (~exists) \/ m.metadata[tableName] < modTime

NeedsUpdate(m, tableName, modTime) ==
    LET exists == tableName \in DOMAIN m.metadata
    IN (~exists) \/ m.metadata[tableName] # modTime

\* columnNames[i] as the inner loop j = 0 .. i-1 of LoadFile computes it
RECURSIVE DedupColumn(_, _, _, _, _, _)
DedupColumn(columnNames, i, j, colName, baseName, counter) ==
    IF j >= i THEN colName
    ELSE IF columnNames[j] = colName
         THEN DedupColumn(columnNames, i, j + 1,
                          baseName \o <<"_">> \o Itoa(counter), baseName, counter + 1)
         ELSE DedupColumn(columnNames, i, j + 1, colName, baseName, counter)

RECURSIVE BuildColumnNames(_, _)
BuildColumnNames(headers, columnNames) ==
    LET i == Len(columnNames) + 1
    IN IF i > Len(headers) THEN columnNames
       ELSE LET colName == SanitizeColumnName(headers[i])
            IN BuildColumnNames(headers,
                   Append(columnNames, DedupColumn(columnNames, i, 1, colName, colName, 1)))

\* CREATE TABLE t (c1 TEXT, ...): SQLite rejects an empty column list and a
\* repeated column name
CreateTableOk(columnNames) ==
    /\ Len(columnNames) > 0
    /\ \A i, j \in 1..Len(columnNames) : i # j => columnNames[i] # columnNames[j]

\* The record padded to width n but never trimmed
PadRecordNoTrim(record, n) ==
    [i \in 1..(IF Len(record) > n THEN Len(record) ELSE n) |->
        IF i <= Len(record) THEN record[i] ELSE <<>>]

\* values[i] of the insert loop: the record padded or trimmed to width n
PadRecord(record, n) == [i \in 1..n |-> IF i <= Len(record) THEN record[i] ELSE <<>>]

\* INSERT OR IGNORE: an existing row for the key is kept
InsertOrIgnoreMetadata(md, tableName, entry) ==
    IF tableName \in DOMAIN md THEN md ELSE Put(md, tableName, entry)

\* INSERT OR REPLACE INTO _csvql_metadata, keyed by table_name
UpsertMetadata(md, tableName, entry) == Put(md, tableName, entry)

\* The statements of LoadFile that can fail for this input
LoadFailPoints(parsed) ==
    {"none", "begin", "drop", "create", "meta", "commit"}
        \cup (IF Len(parsed.Records) > 0 THEN {"prepare", "insert"} ELSE {})

\* The work of LoadFile's transaction up to and including statement `upto`:
\* [tables, csvql_metadata] as the transaction sees them
TxWork(m, parsed, upto) ==
    LET tableName == parsed.TableName
        columnNames == BuildColumnNames(parsed.Headers, <<>>)
        n == Len(parsed.Records)
        rowsIn == IF upto = "insert" THEN n - 1 ELSE n
        t0 == m.tables
        t1 == Del(t0, tableName)
        t2 == Put(t1, tableName, [columns |-> columnNames, rows |-> <<>>])
        t3 == Put(t1, tableName,
                  [columns |-> columnNames,
                   rows |-> [r \in 1..rowsIn |-> PadRecord(parsed.Records[r], Len(columnNames))]])
        md == UpsertMetadata(m.csvql_metadata, tableName,
                  [file_path |-> parsed.Path, mod_time |-> parsed.ModTime])
    IN CASE upto = "begin"   -> [tables |-> t0, csvql_metadata |-> m.csvql_metadata]
         [] upto = "drop"    -> [tables |-> t1, csvql_metadata |-> m.csvql_metadata]
         [] upto = "create"  -> [tables |-> t2, csvql_metadata |-> m.csvql_metadata]
         [] upto = "prepare" -> [tables |-> t2, csvql_metadata |-> m.csvql_metadata]
         [] upto = "insert"  -> [tables |-> t3, csvql_metadata |-> m.csvql_metadata]
         [] upto = "meta"    -> [tables |-> t3, csvql_metadata |-> md]
         [] OTHER            -> [tables |-> t3, csvql_metadata |-> md]

\* The statement at which LoadFile returns its error, "none" if it returns nil
LoadFailsAt(parsed, failAt) ==
    IF failAt \in {"begin", "drop"} THEN failAt
    ELSE IF ~CreateTableOk(BuildColumnNames(parsed.Headers, <<>>)) THEN "create"
    ELSE IF failAt \in LoadFailPoints(parsed) THEN failAt
    ELSE "none"

\* A variant of LoadFile that runs its statements on m.db, outside a
\* transaction, as RemoveTable does: what ran before the error stays
LoadFileNoTx(m, parsed, failAt) ==
    LET at == LoadFailsAt(parsed, failAt)
        before == CASE at = "drop" -> "begin" [] at = "create" -> "drop"
                    [] at = "prepare" -> "create" [] at = "insert" -> "insert"
                    [] at = "meta" -> "insert" [] at = "commit" -> "meta"
                    [] OTHER -> "begin"
        w == TxWork(m, parsed, IF at = "none" THEN "commit" ELSE before)
    IN [err |-> IF at = "none" THEN NoErr ELSE at,
        m |-> [tables |-> w.tables, csvql_metadata |-> w.csvql_metadata,
               metadata |-> IF at = "none"
                            THEN Put(m.metadata, parsed.TableName, parsed.ModTime)
                            ELSE m.metadata]]

\* Manager.LoadFile: every statement runs in one transaction; an error
\* return runs the deferred tx.Rollback, and m.metadata is written only
\* after tx.Commit
LoadFile(m, parsed, failAt) ==
    LET at == LoadFailsAt(parsed, failAt)
        w == TxWork(m, parsed, "commit")
    IN IF at # "none"
       THEN [err |-> at, m |-> m]
       ELSE [err |-> NoErr,
             m |-> [tables |-> w.tables, csvql_metadata |-> w.csvql_metadata,
                    metadata |-> Put(m.metadata, parsed.TableName, parsed.ModTime)]]

RemoveFailPoints == {"none", "drop", "delete"}

\* DROP TABLE without IF EXISTS: removing a table that is not there fails
RemoveTableStrict(m, tableName, failAt) ==
    IF failAt = "drop" \/ tableName \notin DOMAIN m.tables THEN [err |-> "drop", m |-> m]
    ELSE IF failAt = "delete"
    THEN [err |-> "delete", m |-> [m EXCEPT !.tables = Del(m.tables, tableName)]]
    ELSE [err |-> NoErr,
          m |-> [tables |-> Del(m.tables, tableName),
                 csvql_metadata |-> Del(m.csvql_metadata, tableName),
                 metadata |-> Del(m.metadata, tableName)]]

\* Manager.RemoveTable: two statements on m.db, each its own transaction
RemoveTable(m, tableName, failAt) ==
    IF failAt = "drop" THEN [err |-> "drop", m |-> m]
    ELSE IF failAt = "delete"
    THEN [err |-> "delete", m |-> [m EXCEPT !.tables = Del(m.tables, tableName)]]
    ELSE [err |-> NoErr,
          m |-> [tables |-> Del(m.tables, tableName),
                 csvql_metadata |-> Del(m.csvql_metadata, tableName),
                 metadata |-> Del(m.metadata, tableName)]]

\* A listing in descending order of the names
ListTablesDescending(m) ==
    LET asc == SortedNames(DOMAIN m.csvql_metadata)
    IN [i \in 1..Len(asc) |-> asc[Len(asc) + 1 - i]]

\* Manager.ListTables: SELECT table_name FROM _csvql_metadata ORDER BY table_name
ListTables(m) == SortedNames(DOMAIN m.csvql_metadata)

EmptyManager == [tables |-> <<>>, csvql_metadata |-> <<>>, metadata |-> <<>>]

\* A Manager that starts with an empty map whatever the database holds
loadMetadataNone(md) == <<>>

\* Manager.RemoveTableByPath.  The SELECT has no ORDER BY: when several rows
\* carry filePath, QueryRow may return any of them; tableName is the row it
\* returned when there is one.
\* The DELETE removes every row of the path, the map loses tableName alone.
RemoveTableByPath(m, filePath, tableName, failAt) ==
    LET found == {t \in DOMAIN m.csvql_metadata : m.csvql_metadata[t].file_path = filePath}
    IN IF found = {} \/ failAt = "query" THEN [err |-> "no table found", m |-> m]
       ELSE IF failAt = "drop" THEN [err |-> "drop", m |-> m]
       ELSE IF failAt = "delete"
       THEN [err |-> "delete", m |-> [m EXCEPT !.tables = Del(m.tables, tableName)]]
       ELSE [err |-> NoErr,
             m |-> [tables |-> Del(m.tables, tableName),
                    csvql_metadata |-> [t \in DOMAIN m.csvql_metadata \ found |->
                                          m.csvql_metadata[t]],
                    metadata |-> Del(m.metadata, tableName)]]

RenameFailPoints == {"none", "alter", "update"}

\* Manager.RenameTable.  ALTER TABLE fails when oldName is no table or
\* newName is one; the UPDATE fails on the primary key when a row of newName
\* exists beside the row of oldName.  The statements are not in a transaction.
RenameTable(m, oldName, newName, failAt) ==
    IF oldName = newName THEN [err |-> NoErr, m |-> m]
    ELSE IF failAt = "alter" \/ oldName \notin DOMAIN m.tables \/ newName \in DOMAIN m.tables
    THEN [err |-> "alter", m |-> m]
    ELSE LET altered == [m EXCEPT !.tables = Put(Del(m.tables, oldName), newName,
                                                 m.tables[oldName])]
         IN IF failAt = "update"
               \/ (oldName \in DOMAIN m.csvql_metadata /\ newName \in DOMAIN m.csvql_metadata)
            THEN [err |-> "update", m |-> altered]
            ELSE [err |-> NoErr,
                  m |-> [tables |-> altered.tables,
                         csvql_metadata |->
                             IF oldName \in DOMAIN m.csvql_metadata
                             THEN Put(Del(m.csvql_metadata, oldName), newName,
                                      m.csvql_metadata[oldName])
                             ELSE m.csvql_metadata,
                         metadata |->
                             IF oldName \in DOMAIN m.metadata
                             THEN Put(Del(m.metadata, oldName), newName, m.metadata[oldName])
                             ELSE m.metadata]]

\* Manager.loadMetadata: SELECT table_name, mod_time FROM _csvql_metadata
loadMetadata(md) == [tableName \in DOMAIN md |-> md[tableName].mod_time]

\* db.New on a database file that holds these tables and this index
DbNew(m) ==
    [tables |-> m.tables, csvql_metadata |-> m.csvql_metadata,
     metadata |-> loadMetadata(m.csvql_metadata)]

----------------------------------------------------------------------------
(* Inputs                                                                  *)

rootDir == <<"/", "r">>

PathX == <<"/","r","/","x",".","c","s","v">>

PathY == <<"/","r","/","s","/","y",".","T","S","V">>

WatchedPaths == {PathX, PathY}

\* A file the watcher does not recognize, and a subdirectory made while it runs
PathN == <<"/","r","/","n",".","t","x","t">>

DirS == <<"/","r","/","s">>

OtherPaths == {PathN}

NewDirs == {DirS}

\* What the k-th write leaves in a file: nothing, or a header and one row
\* that names the write
FileContents(k) == { <<>>, << <<<<"a">>>>, <<Itoa(k)>> >> }

\* A file with a header and one row, written before the program first runs
FirstFile == [content |-> << <<<<"a">>>>, <<Itoa(0)>> >>, mtime |-> 0]

TableNames == {<<"t">>, <<"u">>}

Stamps == 0..MaxStamp

HeaderNames == {<<"A">>, <<"a","_","1">>}

RECURSIVE SeqsUpTo(_, _)
SeqsUpTo(S, n) ==
    IF n = 0 THEN {<<>>}
    ELSE LET shorter == SeqsUpTo(S, n - 1)
         IN shorter \cup {Append(q, x) : q \in {r \in shorter : Len(r) = n - 1}, x \in S}

\* A field that names its generation, row and column
Field(g, r, c) == <<g, Digits[r + 1], Digits[c + 1]>>

\* Records whose r-th row has widths[r] fields
RecordsOf(g, widths) == [r \in 1..Len(widths) |-> [c \in 1..widths[r] |-> Field(g, r, c)]]

ParsedInputs ==
    { [Path |-> p, TableName |-> t, Headers |-> h, ModTime |-> s,
       Records |-> RecordsOf("n", w)] :
         p \in {PathX}, t \in TableNames, h \in SeqsUpTo(HeaderNames, MaxCols),
         s \in Stamps, w \in SeqsUpTo(0..(MaxCols + 1), MaxRows) }

OldParsed == [Path |-> PathY, TableName |-> <<"t">>, Headers |-> << <<"k">>, <<"v">> >>,
              ModTime |-> 1, Records |-> RecordsOf("o", <<2, 2>>)]

PriorManagers == {EmptyManager, LoadFile(EmptyManager, OldParsed, "none").m}

----------------------------------------------------------------------------
(* package watcher                                                         *)

QuietWindow == 3

SweepPeriod == 5

\* Ages above the quiet window are not told apart
AgeCap == QuietWindow + 1

Older(age) == IF age < AgeCap THEN age + 1 ELSE AgeCap

\* ext != ".csv" && ext != ".tsv", on the lower-cased extension
\* A watch loop that takes every name for a CSV file
IsRecognizedAny(name) == TRUE

\* watch(): ext == ".csv" || ext == ".tsv", on the lowered extension
IsRecognized(name) ==
    ToLower(Ext(name)) \in {<<".","c","s","v">>, <<".","t","s","v">>}

\* A pending entry is promoted however recent its event is
QuietAlways(age) == age >= 0

\* now.Sub(t) > 300*time.Millisecond, for age = now.Sub(t)
Quiet(age) == age > QuietWindow

\* A path already pending keeps the time of its first event
RecordFirst(pend, name) == IF name \in DOMAIN pend THEN pend ELSE Put(pend, name, 0)

\* pending[event.Name] = time.Now(): a recorded time of age 0
Record(pend, name) == Put(pend, name, 0)

\* The callback is made whatever LoadFile returned
AfterLoadAlways(err) == "notify"

\* A processFile that calls back whether or not the file parsed
AfterParseNotifies(err) == IF err # NoErr THEN "notify" ELSE "load"

\* processFile after ParseFile: log and return on error, else LoadFile
AfterParse(err) == IF err # NoErr THEN "done" ELSE "load"

\* processFile after LoadFile: return on error, else onChange("UPDATE")
AfterLoad(err) == IF err # NoErr THEN "done" ELSE "notify"

\* processFile after RemoveTable: log on error, else onChange("DELETE")
AfterRemove(err) == IF err # NoErr THEN "done" ELSE "notify"

\* loader.ScanDirectory: the recognized files below the root, in walk order
ScanDirectory(fs, walk) ==
    SelectSeq(walk, LAMBDA path : path \in DOMAIN fs /\ IsRecognized(path))

\* One turn of the loop of CSVQL.Scan, for one file.  acc is [m, parsed,
\* loaded, warned, err]: the Manager, the files handed to ParseFile so far,
\* those LoadFile loaded, those that gave a warning, and what Scan returns.  failAt is the statement
\* at which the engine fails the load of this file.
ScanFile(acc, fs, file, failAt) ==
    LET parsed == ParseFile(file, rootDir, fs)
        seen == [acc EXCEPT !.parsed = Append(@, file)]
    IN IF parsed.err # NoErr
       THEN [seen EXCEPT !.warned = Append(@, file)]
       ELSE IF ~NeedsUpdate(acc.m, parsed.TableName, parsed.ModTime)
       THEN seen
       ELSE LET r == LoadFile(acc.m, parsed, failAt)
            IN IF r.err # NoErr
               THEN [seen EXCEPT !.warned = Append(@, file)]
               ELSE [seen EXCEPT !.m = r.m, !.loaded = Append(@, file)]

\* A loop that gives up at the first file it cannot parse or load
RECURSIVE ScanLoopAborts(_, _, _, _)
ScanLoopAborts(acc, fs, fail, todo) ==
    IF todo = <<>> THEN acc
    ELSE CHOOSE out \in {IF Len(next.warned) > Len(acc.warned)
                         THEN [next EXCEPT !.err = "scan"]
                         ELSE ScanLoopAborts(next, fs, fail, rest) :
                            next \in {ScanFile(acc, fs, Head(todo), fail[Head(todo)])},
                            rest \in {Tail(todo)}} : TRUE

\* The loop of CSVQL.Scan over the files still to visit
RECURSIVE ScanLoop(_, _, _, _)
ScanLoop(acc, fs, fail, todo) ==
    IF todo = <<>> THEN acc
    ELSE CHOOSE out \in {ScanLoop(next, fs, fail, rest) :
                            next \in {ScanFile(acc, fs, Head(todo), fail[Head(todo)])},
                            rest \in {Tail(todo)}} : TRUE

\* CSVQL.Scan
Scan(m, fs, walk, fail) ==
    ScanLoop([m |-> m, parsed |-> <<>>, loaded |-> <<>>, warned |-> <<>>,
              err |-> NoErr],
             fs, fail, ScanDirectory(fs, walk))

\* No event seen yet for a path
NoEvents == [span |-> -1, age |-> AgeCap, clean |-> TRUE, removes |-> 0, tracked |-> TRUE]

\* The Watcher that New returns, Start not yet called
IdleWatcher ==
    /\ nWrites = 0
    /\ ticker = SweepPeriod
    /\ pending = <<>>
    /\ watchPc = "idle"
    /\ done = FALSE
    /\ wg = 0
    /\ stopPc = "none"
    /\ fsClosed = FALSE
    /\ tasks = <<>>
    /\ callbacks = <<>>
    /\ events = <<>>

\* Manager.mu with no holder
Unlocked == [writer |-> 0, readers |-> {}]

\* No goroutine is inside a call of the Manager
NoCalls ==
    /\ mu = Unlocked
    /\ calls = <<>>

\* No tree and no watched path: the Manager is called directly
WatchInit ==
    /\ files = <<>>
    /\ hEvents = <<>>
    /\ dirs = {}
    /\ watchSet = {}
    /\ NoCalls
    /\ IdleWatcher

NoFail == [path \in WatchedPaths |-> "none"]

\* What the program finds when it starts: x.csv in the root, or an empty
\* directory s below the root in which y.TSV will be created
StartTrees == {[paths |-> {PathX}, files |-> (PathX :> FirstFile)],
               [paths |-> {DirS, PathY}, files |-> <<>>],
               [paths |-> {PathN}, files |-> <<>>]}

\* The store as csvql.New leaves it before it starts the watcher
Scanned(fs) == Scan(DbNew(EmptyManager), fs, <<PathX, PathY>>, NoFail).m

\* csvql.New with Watch set: db.New, Scan, watcher.New; Start comes next
Init ==
    /\ \E start \in StartTrees :
          /\ files = start.files
          /\ hEvents = [path \in start.paths |-> NoEvents]
          /\ \E m \in {Scanned(start.files)} :
                /\ tables = m.tables
                /\ csvql_metadata = m.csvql_metadata
                /\ metadata = m.metadata
                /\ hStamp = m.metadata
    /\ lastOp = [op |-> "New", n |-> 0]
    /\ dirs = {rootDir}
    /\ watchSet = dirs
    /\ NoCalls
    /\ IdleWatcher

\* Watcher.Start: wg.Add(1); go w.watch(), which creates its ticker
Start ==
    /\ watchPc = "idle"
    /\ wg' = wg + 1
    /\ watchPc' = "running"
    /\ ticker' = SweepPeriod
    /\ UNCHANGED <<storeVars, lastOp, hStamp, files, nWrites, pending, done,
                   stopPc, fsClosed, tasks, callbacks, events, hEvents>>
    /\ UNCHANGED <<dirVars, muVars>>

\* A file is created or rewritten; the kernel queues an event for it
FsWrite(p, c) ==
    /\ watchPc # "idle"
    /\ nWrites < MaxEvents
    /\ ~fsClosed
    /\ p \in DOMAIN hEvents
    /\ Dir(p) \in dirs
    /\ nWrites' = nWrites + 1
    /\ files' = Put(files, p, [content |-> c, mtime |-> nWrites + 1])
    /\ events' = IF Dir(p) \in watchSet
                 THEN Append(events, [Name |-> p, Create |-> p \notin DOMAIN files,
                                      clean |-> ParseFile(p, rootDir, files').err = NoErr])
                 ELSE events
    /\ UNCHANGED <<storeVars, lastOp, hStamp, ticker, pending, watchPc, done, wg,
                   stopPc, fsClosed, tasks, callbacks, hEvents>>
    /\ UNCHANGED <<dirVars, muVars>>

\* A directory is made; the kernel queues a Create event for it when its
\* parent is watched
FsMkdir(d) ==
    /\ watchPc # "idle"
    /\ nWrites < MaxEvents
    /\ ~fsClosed
    /\ d \in DOMAIN hEvents
    /\ d \notin dirs
    /\ Dir(d) \in dirs
    /\ nWrites' = nWrites + 1
    /\ dirs' = dirs \cup {d}
    /\ events' = IF Dir(d) \in watchSet
                 THEN Append(events, [Name |-> d, Create |-> TRUE, clean |-> FALSE])
                 ELSE events
    /\ UNCHANGED <<storeVars, lastOp, hStamp, files, ticker, pending, watchPc, done,
                   wg, stopPc, fsClosed, tasks, callbacks, hEvents, watchSet, muVars>>

\* The store holds a table for the file p, and lists it
Tracked(p) ==
    LET t == GetTableName(p, rootDir)
    IN /\ t \in DOMAIN tables
       /\ t \in Range(ListTables(Manager))
       /\ csvql_metadata[t].file_path = p

\* A file is removed; the kernel queues an event for it
FsRemove(p) ==
    /\ watchPc # "idle"
    /\ nWrites < MaxEvents
    /\ ~fsClosed
    /\ p \in DOMAIN hEvents
    /\ p \in DOMAIN files
    /\ nWrites' = nWrites + 1
    /\ files' = Del(files, p)
    /\ events' = IF Dir(p) \in watchSet
                 THEN Append(events, [Name |-> p, Create |-> FALSE, clean |-> FALSE])
                 ELSE events
    /\ hEvents' = [hEvents EXCEPT ![p].removes = @ + 1,
                                  ![p].tracked = @ /\ Tracked(p)]
    /\ UNCHANGED <<storeVars, lastOp, hStamp, ticker, pending, watchPc, done, wg,
                   stopPc, fsClosed, tasks, callbacks>>
    /\ UNCHANGED <<dirVars, muVars>>

\* watch(): case event := <-w.fsWatcher.Events
watchEvent ==
    /\ watchPc = "running"
    /\ events # <<>>
    /\ LET event == Head(events)
           h == hEvents[event.Name]
           span == IF h.span < 0 THEN 0
                   ELSE IF h.span + h.age > QuietWindow THEN QuietWindow
                   ELSE h.span + h.age
       IN /\ events' = Tail(events)
          /\ IF IsRecognized(event.Name)
             THEN /\ pending' = Record(pending, event.Name)
                  /\ hEvents' = [hEvents EXCEPT ![event.Name] =
                                   [h EXCEPT !.span = span, !.age = 0,
                                             !.clean = h.clean /\ event.clean]]
                  /\ UNCHANGED watchSet
             ELSE /\ watchSet' = IF event.Create /\ event.Name \in dirs
                                 THEN watchSet \cup {event.Name}
                                 ELSE watchSet
                  /\ UNCHANGED <<pending, hEvents>>
    /\ UNCHANGED <<storeVars, lastOp, hStamp, files, nWrites, ticker, watchPc,
                   done, wg, stopPc, fsClosed, tasks, callbacks>>
    /\ UNCHANGED <<dirs, muVars>>

\* go w.processFile(path)
NewTask(path) ==
    [path |-> path, pc |-> "stat", kind |-> "", err |-> NoErr,
     parsed |-> [err |-> "unset"], sinceEvent |-> hEvents[path].age]

\* The paths the sweep promotes
Due(pend) == {path \in DOMAIN pend : Quiet(pend[path])}

\* watch(): case <-ticker.C.  The range over the map visits the due paths
\* in any order; each is deleted from pending and handed to a goroutine.
watchTick(order) ==
    /\ watchPc = "running"
    /\ ticker = 0
    /\ Len(order) = Cardinality(Due(pending))
    /\ {order[i] : i \in 1..Len(order)} = Due(pending)
    /\ Len(tasks) + Len(order) <= MaxTasks
    /\ pending' = [path \in (DOMAIN pending) \ Due(pending) |-> pending[path]]
    /\ tasks' = tasks \o [i \in 1..Len(order) |-> NewTask(order[i])]
    /\ ticker' = SweepPeriod
    /\ UNCHANGED <<storeVars, lastOp, hStamp, files, nWrites, watchPc, done, wg,
                   stopPc, fsClosed, callbacks, events, hEvents>>
    /\ UNCHANGED <<dirVars, muVars>>

\* A select without the case for the done channel
watchNeverDone ==
    /\ watchPc = "running"
    /\ done
    /\ FALSE
    /\ UNCHANGED vars

\* watch(): case <-w.done, then the deferred wg.Done
watchDone ==
    /\ watchPc = "running"
    /\ done
    /\ watchPc' = "exited"
    /\ wg' = wg - 1
    /\ UNCHANGED <<storeVars, lastOp, hStamp, files, nWrites, ticker, pending,
                   done, stopPc, fsClosed, tasks, callbacks, events, hEvents>>
    /\ UNCHANGED <<dirVars, muVars>>

\* The process has not died of a panic
Running == stopPc # "panicked"

\* processFile: os.Stat(path)
processStat(i) ==
    /\ Running
    /\ tasks[i].pc = "stat"
    /\ tasks' = [tasks EXCEPT ![i].pc =
                    IF tasks[i].path \in DOMAIN files THEN "parse" ELSE "remove"]
    /\ UNCHANGED <<storeVars, lastOp, hStamp, files, nWrites, ticker, pending,
                   watchPc, done, wg, stopPc, fsClosed, callbacks, events, hEvents>>
    /\ UNCHANGED <<dirVars, muVars>>

\* processFile: the file is gone, RemoveTable(GetTableName(path))
processRemove(i, failAt) ==
    /\ Running
    /\ tasks[i].pc = "remove"
    /\ LET tableName == GetTableName(tasks[i].path, rootDir)
           r == RemoveTable(Manager, tableName, failAt)
       IN /\ tables' = r.m.tables
          /\ csvql_metadata' = r.m.csvql_metadata
          /\ metadata' = r.m.metadata
          /\ hStamp' = IF r.err = NoErr THEN Del(hStamp, tableName) ELSE hStamp
          /\ tasks' = [tasks EXCEPT ![i].pc = AfterRemove(r.err),
                                    ![i].kind = "DELETE", ![i].err = r.err]
    /\ UNCHANGED <<lastOp, files, nWrites, ticker, pending, watchPc, done, wg, stopPc,
                   fsClosed, callbacks, events, hEvents>>
    /\ UNCHANGED <<dirVars, muVars>>

\* processFile: loader.ParseFile(path, w.rootDir)
processParse(i) ==
    /\ Running
    /\ tasks[i].pc = "parse"
    /\ LET parsed == ParseFile(tasks[i].path, rootDir, files)
       IN tasks' = [tasks EXCEPT ![i].parsed = parsed,
                                 ![i].kind = "UPDATE",
                                 ![i].err = parsed.err,
                                 ![i].pc = AfterParse(parsed.err)]
    /\ UNCHANGED <<storeVars, lastOp, hStamp, files, nWrites, ticker, pending,
                   watchPc, done, wg, stopPc, fsClosed, callbacks, events, hEvents>>
    /\ UNCHANGED <<dirVars, muVars>>

\* processFile: w.dbManager.LoadFile(parsed)
processLoad(i, failAt) ==
    /\ Running
    /\ tasks[i].pc = "load"
    /\ failAt \in LoadFailPoints(tasks[i].parsed)
    /\ LET parsed == tasks[i].parsed
           r == LoadFile(Manager, parsed, failAt)
       IN /\ tables' = r.m.tables
          /\ csvql_metadata' = r.m.csvql_metadata
          /\ metadata' = r.m.metadata
          /\ hStamp' = IF r.err = NoErr THEN Put(hStamp, parsed.TableName, parsed.ModTime)
                       ELSE hStamp
          /\ tasks' = [tasks EXCEPT ![i].pc = AfterLoad(r.err),
                                    ![i].err = IF r.err = NoErr THEN NoErr ELSE "load"]
    /\ UNCHANGED <<lastOp, files, nWrites, ticker, pending, watchPc, done, wg, stopPc,
                   fsClosed, callbacks, events, hEvents>>
    /\ UNCHANGED <<dirVars, muVars>>

\* processFile: w.onChange(kind, path)
processNotify(i) ==
    /\ Running
    /\ tasks[i].pc = "notify"
    /\ callbacks' = Append(callbacks,
                           [event |-> tasks[i].kind, path |-> tasks[i].path, task |-> i])
    /\ tasks' = [tasks EXCEPT ![i].pc = "done"]
    /\ UNCHANGED <<storeVars, lastOp, hStamp, files, nWrites, ticker, pending,
                   watchPc, done, wg, stopPc, fsClosed, events, hEvents>>
    /\ UNCHANGED <<dirVars, muVars>>

\* Watcher.Stop: close(w.done), in the first call (from CSVQL.Close) or in a
\* call after an earlier one has returned.  close of a channel that is
\* already closed panics, and the panic ends the process.
StopClose ==
    /\ stopPc \in {"none", "returned"}
    /\ watchPc # "idle"
    /\ IF done
       THEN stopPc' = "panicked" /\ UNCHANGED done
       ELSE done' = TRUE /\ stopPc' = "waiting"
    /\ UNCHANGED <<storeVars, lastOp, hStamp, files, nWrites, ticker, pending,
                   watchPc, wg, fsClosed, tasks, callbacks, events, hEvents>>
    /\ UNCHANGED <<dirVars, muVars>>

\* Watcher.Stop: w.wg.Wait() returns, then w.fsWatcher.Close()
StopReturn ==
    /\ stopPc = "waiting"
    /\ wg = 0
    /\ fsClosed' = TRUE
    /\ stopPc' = "returned"
    /\ UNCHANGED <<storeVars, lastOp, hStamp, files, nWrites, ticker, pending,
                   watchPc, done, wg, tasks, callbacks, events, hEvents>>
    /\ UNCHANGED <<dirVars, muVars>>

\* 100 ms pass.  The running watch loop never blocks outside its select, so
\* a deliverable event, a due tick or a closed done channel is taken first.
\* The clock is not followed once no event can come and nothing is pending.
Advance ==
    /\ watchPc = "running"
    /\ events = <<>> /\ ticker > 0 /\ ~done
    /\ nWrites < MaxEvents \/ pending # <<>>
    /\ ticker' = ticker - 1
    /\ pending' = [path \in DOMAIN pending |-> Older(pending[path])]
    /\ hEvents' = [path \in DOMAIN hEvents |-> [hEvents[path] EXCEPT !.age = Older(@)]]
    /\ UNCHANGED <<storeVars, lastOp, hStamp, files, nWrites, watchPc, done, wg,
                   stopPc, fsClosed, tasks, callbacks, events>>
    /\ UNCHANGED <<dirVars, muVars>>

Orders == SeqsUpTo(WatchedPaths, Cardinality(WatchedPaths))

Next ==
    \/ Start
    \/ \E p \in WatchedPaths \cup OtherPaths, c \in FileContents(nWrites + 1) : FsWrite(p, c)
    \/ \E p \in WatchedPaths \cup OtherPaths : FsRemove(p)
    \/ \E d \in NewDirs : FsMkdir(d)
    \/ watchEvent
    \/ \E order \in Orders : watchTick(order)
    \/ watchDone
    \/ \E i \in 1..Len(tasks) : processStat(i)
    \/ \E i \in 1..Len(tasks), failAt \in RemoveFailPoints : processRemove(i, failAt)
    \/ \E i \in 1..Len(tasks) : processParse(i)
    \/ \E i \in 1..Len(tasks), failAt \in {"none", "begin", "drop", "create", "prepare",
                                              "insert", "meta", "commit"} :
          processLoad(i, failAt)
    \/ \E i \in 1..Len(tasks) : processNotify(i)
    \/ StopClose
    \/ StopReturn
    \/ Advance

Spec == Init /\ [][Next]_vars

\* The goroutine of watch() and the caller of Stop are scheduled: a closed
\* done channel is a ready case of every select from then on, and Wait
\* returns once the counter is zero.  Nothing is assumed of the
\* reconciliations or of the filesystem.
FairSpec == Spec /\ WF_vars(watchDone) /\ WF_vars(StopReturn)

----------------------------------------------------------------------------
(* package csvql: New, Scan and Close, without a watcher                   *)

PathData == <<"/","r","/","d","a","t","a",".","c","s","v">>

PathSales == <<"/","r","/","d","a","t","a","/","s","a","l","e","s","/",
               "2","0","2","4",".","c","s","v">>

PathUsers == <<"/","r","/","d","a","t","a","/","u","s","e","r","s","/",
               "a","c","t","i","v","e",".","c","s","v">>

\* The files of the tree in the order filepath.Walk visits them: the
\* entries of a directory in lexical order, a directory's files before the
\* next entry
WalkOrder == <<PathSales, PathUsers, PathData>>

ScanPaths == {WalkOrder[i] : i \in 1..Len(WalkOrder)}

\* The engine fails the commit of no load, or of the loads of one file
ScanFails ==
    {[path \in ScanPaths |-> IF path = failing THEN "commit" ELSE "none"] :
        failing \in ScanPaths \cup {<<>>}}

\* A tree of files written before the program first runs
ScanTrees == {[path \in S |-> FirstFile] : S \in SUBSET ScanPaths}

ScanInit ==
    /\ IdleWatcher
    /\ hEvents = <<>>
    /\ dirs = {}
    /\ watchSet = {}
    /\ NoCalls
    /\ files \in ScanTrees
    /\ tables = <<>>
    /\ csvql_metadata = <<>>
    /\ metadata = <<>>
    /\ hStamp = <<>>
    /\ lastOp = [op |-> "Close", n |-> 0, scanned |-> {}]

\* csvql.New with Watch unset: db.New, then the initial Scan
csvqlNew(fail) ==
    /\ lastOp.op = "Close"
    /\ lastOp.n < MaxRuns
    /\ \E opened \in {DbNew(Manager)} : \E r \in {Scan(opened, files, WalkOrder, fail)} :
       LET names == {GetFullTableName(r.loaded[i], rootDir) : i \in 1..Len(r.loaded)}
       IN /\ tables' = r.m.tables
          /\ csvql_metadata' = r.m.csvql_metadata
          /\ metadata' = r.m.metadata
          /\ hStamp' = [t \in (DOMAIN hStamp) \cup names |->
                           IF t \in names THEN r.m.metadata[t] ELSE hStamp[t]]
          /\ lastOp' = [op |-> "New", n |-> lastOp.n + 1, opened |-> opened,
                        parsed |-> r.parsed, loaded |-> r.loaded, warned |-> r.warned,
                        err |-> r.err, fail |-> fail,
                        scanned |-> {files}, restartOf |-> lastOp.scanned]
    /\ UNCHANGED watchVars
    /\ UNCHANGED <<dirVars, muVars>>

\* CSVQL.Close: the Manager and its map go, the database file stays
csvqlClose ==
    /\ lastOp.op = "New"
    /\ metadata' = <<>>
    /\ lastOp' = [op |-> "Close", n |-> lastOp.n, scanned |-> lastOp.scanned]
    /\ UNCHANGED <<tables, csvql_metadata, hStamp, watchVars>>
    /\ UNCHANGED <<dirVars, muVars>>

\* A file of the tree is created or rewritten
TreeWrite(p, c) ==
    /\ nWrites < MaxChanges
    /\ nWrites' = nWrites + 1
    /\ files' = Put(files, p, [content |-> c, mtime |-> nWrites + 1])
    /\ UNCHANGED <<storeVars, lastOp, hStamp, ticker, pending, watchPc, done, wg,
                   stopPc, fsClosed, tasks, callbacks, events, hEvents>>
    /\ UNCHANGED <<dirVars, muVars>>

\* A file of the tree is removed
TreeRemove(p) ==
    /\ nWrites < MaxChanges
    /\ p \in DOMAIN files
    /\ nWrites' = nWrites + 1
    /\ files' = Del(files, p)
    /\ UNCHANGED <<storeVars, lastOp, hStamp, ticker, pending, watchPc, done, wg,
                   stopPc, fsClosed, tasks, callbacks, events, hEvents>>
    /\ UNCHANGED <<dirVars, muVars>>

ScanNext ==
    \/ \E fail \in ScanFails : csvqlNew(fail)
    \/ csvqlClose
    \/ \E p \in ScanPaths, c \in FileContents(nWrites + 1) : TreeWrite(p, c)
    \/ \E p \in ScanPaths : TreeRemove(p)

ScanSpec == ScanInit /\ [][ScanNext]_vars

----------------------------------------------------------------------------
(* Direct calls of ResolveTableNames on the recognized files of a tree     *)

PathAX == <<"/","r","/","a","/","x",".","c","s","v">>

PathBX == <<"/","r","/","b","/","x",".","c","s","v">>

PathAXt == <<"/","r","/","a","/","X",".","t","s","v">>

PathRY == <<"/","r","/","y",".","c","s","v">>

ResolvePaths == {PathX, PathAX, PathBX, PathAXt, PathRY}

\* The lists that hold every element of S once
OrdersOf(S) ==
    {q \in SeqsUpTo(S, Cardinality(S)) :
        Len(q) = Cardinality(S) /\ {q[i] : i \in 1..Len(q)} = S}

ResolveInit ==
    /\ WatchInit
    /\ tables = <<>>
    /\ csvql_metadata = <<>>
    /\ metadata = <<>>
    /\ hStamp = <<>>
    /\ \E S \in SUBSET ResolvePaths :
          /\ Cardinality(S) <= MaxPaths
          /\ lastOp = [op |-> "paths", n |-> 0, set |-> S, prev |-> {}]

\* ResolveTableNames(filePaths, rootDir) on the paths in one list order
DoResolve(filePaths) ==
    /\ lastOp.n < MaxResolves
    /\ filePaths \in OrdersOf(lastOp.set)
    /\ lastOp' = [op |-> "Resolve", n |-> lastOp.n + 1, set |-> lastOp.set,
                  names |-> ResolveTableNames(filePaths, rootDir),
                  prev |-> IF lastOp.op = "Resolve"
                           THEN {[set |-> lastOp.set, names |-> lastOp.names]}
                           ELSE lastOp.prev]
    /\ UNCHANGED <<storeVars, hStamp, watchVars>>
    /\ UNCHANGED <<dirVars, muVars>>

\* One of the resolved files is deleted from the tree
DeletePath(path) ==
    /\ lastOp.op = "Resolve"
    /\ path \in lastOp.set
    /\ lastOp' = [op |-> "paths", n |-> lastOp.n, set |-> lastOp.set \ {path},
                  prev |-> {[set |-> lastOp.set, names |-> lastOp.names]}]
    /\ UNCHANGED <<storeVars, hStamp, watchVars>>
    /\ UNCHANGED <<dirVars, muVars>>

ResolveNext ==
    \/ \E filePaths \in SeqsUpTo(ResolvePaths, MaxPaths) : DoResolve(filePaths)
    \/ \E path \in ResolvePaths : DeletePath(path)

ResolveSpec == ResolveInit /\ [][ResolveNext]_vars

----------------------------------------------------------------------------
(* Direct calls of the Manager: one LoadFile on a prior store              *)

AllLoadFailPoints == {"none", "begin", "drop", "create", "prepare", "insert", "meta", "commit"}

LoadInit ==
    /\ WatchInit
    /\ \E m \in PriorManagers, parsed \in ParsedInputs :
          /\ tables = m.tables
          /\ csvql_metadata = m.csvql_metadata
          /\ metadata = m.metadata
          /\ hStamp = m.metadata
          /\ lastOp = [op |-> "input", n |-> 0, parsed |-> parsed]

DoLoadFile(failAt) ==
    /\ lastOp.op = "input"
    /\ failAt \in LoadFailPoints(lastOp.parsed)
    /\ LET parsed == lastOp.parsed
           r == LoadFile(Manager, parsed, failAt)
       IN /\ tables' = r.m.tables
          /\ csvql_metadata' = r.m.csvql_metadata
          /\ metadata' = r.m.metadata
          /\ hStamp' = IF r.err = NoErr THEN Put(hStamp, parsed.TableName, parsed.ModTime)
                       ELSE hStamp
          /\ lastOp' = [op |-> "LoadFile", n |-> 1, parsed |-> parsed, err |-> r.err,
                        before |-> Manager]
    /\ UNCHANGED watchVars
    /\ UNCHANGED <<dirVars, muVars>>

LoadNext == \E failAt \in AllLoadFailPoints : DoLoadFile(failAt)

LoadSpec == LoadInit /\ [][LoadNext]_vars

----------------------------------------------------------------------------
(* Direct calls of the Manager: LoadFile of a header row on a fresh store, *)
(* with no engine failure                                                  *)

ColumnHeaders == {<<"n","a","m","e">>, <<"n","a","m","e","_","1">>,
                  <<"N","a","m","e">>, <<"1"," ","x">>}

HeaderInit ==
    /\ WatchInit
    /\ tables = <<>>
    /\ csvql_metadata = <<>>
    /\ metadata = <<>>
    /\ hStamp = <<>>
    /\ \E h \in SeqsUpTo(ColumnHeaders, MaxHeaders) :
          /\ Len(h) > 0
          /\ lastOp = [op |-> "input", n |-> 0,
                       parsed |-> [Path |-> PathX, TableName |-> <<"t">>, Headers |-> h,
                                   ModTime |-> 1, Records |-> RecordsOf("n", <<Len(h)>>)]]

LoadHeaders ==
    /\ lastOp.op = "input"
    /\ LET parsed == lastOp.parsed
           r == LoadFile(Manager, parsed, "none")
       IN /\ tables' = r.m.tables
          /\ csvql_metadata' = r.m.csvql_metadata
          /\ metadata' = r.m.metadata
          /\ hStamp' = IF r.err = NoErr THEN Put(hStamp, parsed.TableName, parsed.ModTime)
                       ELSE hStamp
          /\ lastOp' = [op |-> "LoadFile", n |-> 1, parsed |-> parsed, err |-> r.err,
                        before |-> Manager]
    /\ UNCHANGED watchVars
    /\ UNCHANGED <<dirVars, muVars>>

HeaderSpec == HeaderInit /\ [][LoadHeaders]_vars

----------------------------------------------------------------------------
(* Direct calls of the Manager: sequences of LoadFile, RemoveTable and     *)
(* NeedsUpdate on a fresh store                                            *)

SmallParsed ==
    { [Path |-> p, TableName |-> t, Headers |-> << <<"a">> >>, ModTime |-> s,
       Records |-> RecordsOf("n", <<1>>)] :
         p \in {PathX, PathY}, t \in TableNames, s \in Stamps }

StoreLoadFile(parsed, failAt) ==
    /\ lastOp.n < MaxOps
    /\ failAt \in LoadFailPoints(parsed)
    /\ LET r == LoadFile(Manager, parsed, failAt)
       IN /\ tables' = r.m.tables
          /\ csvql_metadata' = r.m.csvql_metadata
          /\ metadata' = r.m.metadata
          /\ hStamp' = IF r.err = NoErr THEN Put(hStamp, parsed.TableName, parsed.ModTime)
                       ELSE hStamp
          /\ lastOp' = [op |-> "LoadFile", n |-> lastOp.n + 1, parsed |-> parsed,
                        err |-> r.err, before |-> Manager]
    /\ UNCHANGED watchVars
    /\ UNCHANGED <<dirVars, muVars>>

StoreRemoveTable(tableName, failAt) ==
    /\ lastOp.n < MaxOps
    /\ LET r == RemoveTable(Manager, tableName, failAt)
       IN /\ tables' = r.m.tables
          /\ csvql_metadata' = r.m.csvql_metadata
          /\ metadata' = r.m.metadata
          /\ hStamp' = IF r.err = NoErr THEN Del(hStamp, tableName) ELSE hStamp
          /\ lastOp' = [op |-> "RemoveTable", n |-> lastOp.n + 1, tableName |-> tableName,
                        failAt |-> failAt, err |-> r.err, before |-> Manager]
    /\ UNCHANGED watchVars
    /\ UNCHANGED <<dirVars, muVars>>

StoreNeedsUpdate(tableName, modTime) ==
    /\ lastOp.n < MaxOps
    /\ lastOp' = [op |-> "NeedsUpdate", n |-> lastOp.n + 1, tableName |-> tableName,
                  modTime |-> modTime, result |-> NeedsUpdate(Manager, tableName, modTime),
                  before |-> Manager]
    /\ UNCHANGED <<storeVars, hStamp, watchVars>>
    /\ UNCHANGED <<dirVars, muVars>>

\* Manager.Close, then db.New on the same database file
StoreReopen ==
    /\ lastOp.n < MaxOps
    /\ LET m == DbNew(Manager)
       IN /\ tables' = m.tables
          /\ csvql_metadata' = m.csvql_metadata
          /\ metadata' = m.metadata
    /\ lastOp' = [op |-> "Reopen", n |-> lastOp.n + 1, before |-> Manager]
    /\ UNCHANGED <<hStamp, watchVars>>
    /\ UNCHANGED <<dirVars, muVars>>

StoreNext ==
    \/ StoreReopen
    \/ \E parsed \in SmallParsed, failAt \in AllLoadFailPoints : StoreLoadFile(parsed, failAt)
    \/ \E t \in TableNames, failAt \in RemoveFailPoints : StoreRemoveTable(t, failAt)
    \/ \E t \in TableNames, s \in Stamps : StoreNeedsUpdate(t, s)

StoreInit ==
    /\ WatchInit
    /\ tables = <<>>
    /\ csvql_metadata = <<>>
    /\ metadata = <<>>
    /\ hStamp = <<>>
    /\ lastOp = [op |-> "New", n |-> 0]

StoreSpec == StoreInit /\ [][StoreNext]_vars

(* The same calls together with RemoveTableByPath and RenameTable          *)

StoreRemoveTableByPath(filePath, tableName, failAt) ==
    /\ lastOp.n < MaxOps
    /\ LET found == {t \in DOMAIN csvql_metadata : csvql_metadata[t].file_path = filePath}
       IN found = {} \/ tableName \in found
    /\ LET r == RemoveTableByPath(Manager, filePath, tableName, failAt)
       IN /\ tables' = r.m.tables
          /\ csvql_metadata' = r.m.csvql_metadata
          /\ metadata' = r.m.metadata
          /\ hStamp' = IF r.err = NoErr
                       THEN [t \in DOMAIN hStamp \cap DOMAIN r.m.csvql_metadata |-> hStamp[t]]
                       ELSE hStamp
          /\ lastOp' = [op |-> "RemoveTableByPath", n |-> lastOp.n + 1, filePath |-> filePath,
                        failAt |-> failAt, err |-> r.err, before |-> Manager]
    /\ UNCHANGED watchVars
    /\ UNCHANGED <<dirVars, muVars>>

StoreRenameTable(oldName, newName, failAt) ==
    /\ lastOp.n < MaxOps
    /\ LET r == RenameTable(Manager, oldName, newName, failAt)
       IN /\ tables' = r.m.tables
          /\ csvql_metadata' = r.m.csvql_metadata
          /\ metadata' = r.m.metadata
          /\ hStamp' = IF r.err = NoErr /\ oldName # newName /\ oldName \in DOMAIN hStamp
                       THEN Put(Del(hStamp, oldName), newName, hStamp[oldName])
                       ELSE hStamp
          /\ lastOp' = [op |-> "RenameTable", n |-> lastOp.n + 1, oldName |-> oldName,
                        newName |-> newName, failAt |-> failAt, err |-> r.err,
                        before |-> Manager]
    /\ UNCHANGED watchVars
    /\ UNCHANGED <<dirVars, muVars>>

StoreAllNext ==
    \/ StoreNext
    \/ \E filePath \in {PathX, PathY}, t \in TableNames, failAt \in {"none", "query", "drop", "delete"} :
          StoreRemoveTableByPath(filePath, t, failAt)
    \/ \E oldName \in TableNames, newName \in TableNames, failAt \in RenameFailPoints :
          StoreRenameTable(oldName, newName, failAt)

StoreAllSpec == StoreInit /\ [][StoreAllNext]_vars

----------------------------------------------------------------------------
(* Goroutines calling the Manager at the same time: the reconciliations of *)
(* the watcher (LoadFile, RemoveTable) and the readers of the application. *)
(* Every method takes m.mu first and releases it when it returns.          *)

Writers == {"LoadFile", "RemoveTable"}

Readers == {"Query", "NeedsUpdate", "ListTables", "GetTableInfo"}

\* What LoadFile is handed for a table
ParsedFor(tableName) ==
    [Path |-> IF tableName = <<"t">> THEN PathX ELSE PathY, TableName |-> tableName,
     Headers |-> << <<"a">> >>, ModTime |-> 1, Records |-> RecordsOf("n", <<1>>)]

CallInputs ==
    {[op |-> "LoadFile", arg |-> t] : t \in TableNames}
        \cup {[op |-> o, arg |-> <<"t">>] : o \in {"RemoveTable"} \cup Readers}

\* An RLock that does not wait for a writer
CanRLockAlways(m) == TRUE

\* RWMutex.RLock returns at once unless a writer holds the lock or waits for it
CanRLock(m) == m.writer = 0

\* RWMutex.Lock: one writer at a time gets past rw.w.Lock()
CanLock(m) == m.writer = 0

\* The part of a method between taking m.mu and releasing it
InSection(call) == call.pc \in {"in", "in2", "out"}

\* The three places the Manager keeps a table in agree on the table names
Whole(m) ==
    /\ DOMAIN m.tables = DOMAIN m.csvql_metadata
    /\ DOMAIN m.csvql_metadata = DOMAIN m.metadata

\* A goroutine calls a method of the Manager
Call(in) ==
    /\ Len(calls) < MaxCalls
    /\ calls' = Append(calls, [op |-> in.op, arg |-> in.arg, pc |-> "start", whole |-> TRUE])
    /\ UNCHANGED <<storeVars, lastOp, hStamp, watchVars, dirVars, mu>>

\* m.mu.Lock(): the writer announces itself, which holds new readers off
muLock(i) ==
    /\ calls[i].op \in Writers
    /\ calls[i].pc = "start"
    /\ CanLock(mu)
    /\ mu' = [mu EXCEPT !.writer = i]
    /\ calls' = [calls EXCEPT ![i].pc = "wait"]
    /\ UNCHANGED <<storeVars, lastOp, hStamp, watchVars, dirVars>>

\* m.mu.Lock() returns once the readers that were in have left
muLocked(i) ==
    /\ calls[i].pc = "wait"
    /\ mu.writer = i
    /\ mu.readers = {}
    /\ calls' = [calls EXCEPT ![i].pc = "in"]
    /\ UNCHANGED <<storeVars, lastOp, hStamp, watchVars, dirVars, mu>>

\* LoadFile: Begin and the statements of the transaction, which no other
\* connection sees before the commit
loadStatements(i) ==
    /\ calls[i].op = "LoadFile"
    /\ calls[i].pc = "in"
    /\ calls' = [calls EXCEPT ![i].pc = "in2"]
    /\ UNCHANGED <<storeVars, lastOp, hStamp, watchVars, dirVars, mu>>

\* LoadFile: tx.Commit and m.metadata[tableName] = modTime
loadCommit(i) ==
    /\ calls[i].op = "LoadFile"
    /\ calls[i].pc = "in2"
    /\ \E r \in {LoadFile(Manager, ParsedFor(calls[i].arg), "none")} :
          /\ tables' = r.m.tables
          /\ csvql_metadata' = r.m.csvql_metadata
          /\ metadata' = r.m.metadata
          /\ hStamp' = Put(hStamp, calls[i].arg, 1)
    /\ calls' = [calls EXCEPT ![i].pc = "out"]
    /\ UNCHANGED <<lastOp, watchVars, dirVars, mu>>

\* RemoveTable: DROP TABLE IF EXISTS, a statement of its own
removeDrop(i) ==
    /\ calls[i].op = "RemoveTable"
    /\ calls[i].pc = "in"
    /\ tables' = RemoveTable(Manager, calls[i].arg, "delete").m.tables
    /\ calls' = [calls EXCEPT ![i].pc = "in2"]
    /\ UNCHANGED <<csvql_metadata, metadata, lastOp, hStamp, watchVars, dirVars, mu>>

\* RemoveTable: DELETE FROM _csvql_metadata and delete(m.metadata, tableName)
removeDelete(i) ==
    /\ calls[i].op = "RemoveTable"
    /\ calls[i].pc = "in2"
    /\ \E r \in {RemoveTable(Manager, calls[i].arg, "none")} :
          /\ tables' = r.m.tables
          /\ csvql_metadata' = r.m.csvql_metadata
          /\ metadata' = r.m.metadata
    /\ hStamp' = Del(hStamp, calls[i].arg)
    /\ calls' = [calls EXCEPT ![i].pc = "out"]
    /\ UNCHANGED <<lastOp, watchVars, dirVars, mu>>

\* the deferred m.mu.Unlock()
muUnlock(i) ==
    /\ calls[i].op \in Writers
    /\ calls[i].pc = "out"
    /\ mu' = [mu EXCEPT !.writer = 0]
    /\ calls' = [calls EXCEPT ![i].pc = "ret"]
    /\ UNCHANGED <<storeVars, lastOp, hStamp, watchVars, dirVars>>

\* m.mu.RLock()
muRLock(i) ==
    /\ calls[i].op \in Readers
    /\ calls[i].pc = "start"
    /\ CanRLock(mu)
    /\ mu' = [mu EXCEPT !.readers = @ \cup {i}]
    /\ calls' = [calls EXCEPT ![i].pc = "in"]
    /\ UNCHANGED <<storeVars, lastOp, hStamp, watchVars, dirVars>>

\* Query, NeedsUpdate, ListTables, GetTableInfo: the read itself
readStore(i) ==
    /\ calls[i].op \in Readers
    /\ calls[i].pc = "in"
    /\ calls' = [calls EXCEPT ![i].pc = "out", ![i].whole = Whole(Manager)]
    /\ UNCHANGED <<storeVars, lastOp, hStamp, watchVars, dirVars, mu>>

\* the deferred m.mu.RUnlock()
muRUnlock(i) ==
    /\ calls[i].op \in Readers
    /\ calls[i].pc = "out"
    /\ mu' = [mu EXCEPT !.readers = @ \ {i}]
    /\ calls' = [calls EXCEPT ![i].pc = "ret"]
    /\ UNCHANGED <<storeVars, lastOp, hStamp, watchVars, dirVars>>

MutexNext ==
    \/ \E in \in CallInputs : Call(in)
    \/ \E i \in 1..Len(calls) : muLock(i)
    \/ \E i \in 1..Len(calls) : muLocked(i)
    \/ \E i \in 1..Len(calls) : loadStatements(i)
    \/ \E i \in 1..Len(calls) : loadCommit(i)
    \/ \E i \in 1..Len(calls) : removeDrop(i)
    \/ \E i \in 1..Len(calls) : removeDelete(i)
    \/ \E i \in 1..Len(calls) : muUnlock(i)
    \/ \E i \in 1..Len(calls) : muRLock(i)
    \/ \E i \in 1..Len(calls) : readStore(i)
    \/ \E i \in 1..Len(calls) : muRUnlock(i)

\* A Manager that holds the table "t", and no call under way
MutexInit ==
    /\ WatchInit
    /\ \E m \in {LoadFile(EmptyManager, ParsedFor(<<"t">>), "none").m} :
          /\ tables = m.tables
          /\ csvql_metadata = m.csvql_metadata
          /\ metadata = m.metadata
          /\ hStamp = m.metadata
    /\ lastOp = [op |-> "New", n |-> 0]

MutexSpec == MutexInit /\ [][MutexNext]_vars

----------------------------------------------------------------------------
(* Properties of the Manager                                               *)

\* C3: a LoadFile that returns an error leaves the data tables, the
\* persisted metadata index and the in-memory stamps exactly as they were
\* before the call, whatever statement failed.
C3_LoadAllOrNothing ==
    (lastOp.op = "LoadFile" /\ lastOp.err # NoErr) => Manager = lastOp.before

\* A load that failed at commit, on a store that held the table: the old
\* table, its metadata entry and its stamp are still there
C3_Witness ==
    /\ lastOp.op = "LoadFile"
    /\ lastOp.err = "commit"
    /\ lastOp.parsed.TableName \in DOMAIN tables
    /\ tables[lastOp.parsed.TableName].rows = OldParsed.Records
    /\ lastOp.parsed.TableName \in DOMAIN csvql_metadata
    /\ metadata[lastOp.parsed.TableName] = OldParsed.ModTime

\* C8: NeedsUpdate is true for a table without a metadata entry; after a
\* successful load of t with stamp s0 (and no removal since) it is false
\* for s0 and true for every other stamp, smaller ones included; and a
\* call of NeedsUpdate leaves the store as it was.
C8_NeedsUpdate ==
    /\ \A t \in TableNames, s \in Stamps :
          /\ t \notin DOMAIN csvql_metadata => NeedsUpdate(Manager, t, s)
          /\ t \in DOMAIN hStamp => (NeedsUpdate(Manager, t, s) <=> s # hStamp[t])
    /\ lastOp.op = "NeedsUpdate" =>
          /\ Manager = lastOp.before
          /\ lastOp.result = (lastOp.tableName \notin DOMAIN hStamp
                                 \/ hStamp[lastOp.tableName] # lastOp.modTime)

\* NeedsUpdate answered true for a stamp smaller than the loaded one
C8_Witness ==
    /\ lastOp.op = "NeedsUpdate"
    /\ lastOp.tableName \in DOMAIN hStamp
    /\ lastOp.modTime < hStamp[lastOp.tableName]
    /\ lastOp.result = TRUE

\* C9: a successful load of N headers and M records leaves a table of N
\* columns and M rows, every row of width N, holding the record's fields in
\* order, empty strings where the record was short, and nothing of the
\* fields beyond the N-th.
C9_RoundTrip ==
    (lastOp.op = "LoadFile" /\ lastOp.err = NoErr) =>
        LET parsed == lastOp.parsed
            N == Len(parsed.Headers)
            M == Len(parsed.Records)
            T == tables[parsed.TableName]
        IN /\ Len(T.columns) = N
           /\ Len(T.rows) = M
           /\ \A r \in 1..M :
                 /\ Len(T.rows[r]) = N
                 /\ \A c \in 1..N :
                       T.rows[r][c] = IF c <= Len(parsed.Records[r])
                                      THEN parsed.Records[r][c] ELSE <<>>

\* A load succeeded for records with a row shorter and a row longer than
\* the header
C9_Witness ==
    /\ lastOp.op = "LoadFile"
    /\ lastOp.err = NoErr
    /\ \E r \in 1..Len(lastOp.parsed.Records) :
          Len(lastOp.parsed.Records[r]) < Len(lastOp.parsed.Headers)
    /\ \E r \in 1..Len(lastOp.parsed.Records) :
          Len(lastOp.parsed.Records[r]) > Len(lastOp.parsed.Headers)

\* C10: a successful load under a table name that existed replaces it: the
\* table has the new record's columns and rows, no row of the old table,
\* and the metadata entry holds the new record's path and stamp.
C10_LoadReplaces ==
    (/\ lastOp.op = "LoadFile"
     /\ lastOp.err = NoErr
     /\ lastOp.parsed.TableName \in DOMAIN lastOp.before.tables) =>
        LET parsed == lastOp.parsed
            old == lastOp.before.tables[parsed.TableName]
            T == tables[parsed.TableName]
        IN /\ T.columns = BuildColumnNames(parsed.Headers, <<>>)
           /\ Len(T.rows) = Len(parsed.Records)
           /\ \A r \in 1..Len(T.rows), q \in 1..Len(old.rows) : T.rows[r] # old.rows[q]
           /\ csvql_metadata[parsed.TableName] =
                 [file_path |-> parsed.Path, mod_time |-> parsed.ModTime]
           /\ metadata[parsed.TableName] = parsed.ModTime

\* A table with rows was replaced by a load with other rows, path and stamp
C10_Witness ==
    /\ lastOp.op = "LoadFile"
    /\ lastOp.err = NoErr
    /\ lastOp.parsed.TableName \in DOMAIN lastOp.before.tables
    /\ Len(lastOp.before.tables[lastOp.parsed.TableName].rows) > 0
    /\ Len(lastOp.parsed.Records) > 0
    /\ lastOp.before.csvql_metadata[lastOp.parsed.TableName].file_path # lastOp.parsed.Path
    /\ lastOp.before.csvql_metadata[lastOp.parsed.TableName].mod_time # lastOp.parsed.ModTime

\* C11: a RemoveTable that the engine does not fail returns nil and leaves
\* no table, no persisted and no in-memory metadata entry under the name,
\* every other table and entry as it was; when nothing was stored under the
\* name the store is unchanged, and a second RemoveTable changes nothing.
C11_RemoveIdempotent ==
    (lastOp.op = "RemoveTable" /\ lastOp.failAt = "none") =>
        LET t == lastOp.tableName
            b == lastOp.before
        IN /\ lastOp.err = NoErr
           /\ tables = Del(b.tables, t)
           /\ csvql_metadata = Del(b.csvql_metadata, t)
           /\ metadata = Del(b.metadata, t)
           /\ (t \notin DOMAIN b.tables /\ t \notin DOMAIN b.csvql_metadata
                  /\ t \notin DOMAIN b.metadata) => Manager = b
           /\ RemoveTable(Manager, t, "none") = [err |-> NoErr, m |-> Manager]

\* A table that was loaded, beside another one, has been removed
C11_Witness ==
    /\ lastOp.op = "RemoveTable"
    /\ lastOp.failAt = "none"
    /\ lastOp.tableName \in DOMAIN lastOp.before.tables
    /\ lastOp.tableName \in DOMAIN lastOp.before.metadata
    /\ DOMAIN tables # {}

\* C12: a data table exists exactly when a metadata entry exists under its
\* name, after failed calls too.
C12_TableIffMetadata ==
    /\ DOMAIN tables = DOMAIN csvql_metadata
    /\ DOMAIN tables = DOMAIN metadata

\* C18: the column names LoadFile derives from a header row are pairwise
\* distinct, and the load of a header row does not fail.
C18_ColumnsDistinct ==
    lastOp.op = "LoadFile" =>
        LET columnNames == BuildColumnNames(lastOp.parsed.Headers, <<>>)
        IN /\ \A i, j \in 1..Len(columnNames) : i # j => columnNames[i] # columnNames[j]
           /\ lastOp.err = NoErr

\* C19: after Close and New on the same database file, ListTables names
\* the same tables, the tables hold the same rows, and NeedsUpdate is false
\* for every loaded table with the stamp of its load.
C19_PersistenceRoundTrip ==
    lastOp.op = "Reopen" =>
        /\ Range(ListTables(Manager)) = Range(ListTables(lastOp.before))
        /\ tables = lastOp.before.tables
        /\ \A t \in DOMAIN hStamp : ~NeedsUpdate(Manager, t, hStamp[t])

\* A store with a loaded table that has rows was closed and opened again
C19_Witness ==
    /\ lastOp.op = "Reopen"
    /\ \E t \in DOMAIN hStamp :
          /\ t \in DOMAIN tables
          /\ Len(tables[t].rows) > 0
          /\ t \in Range(ListTables(Manager))

----------------------------------------------------------------------------
(* Properties of the initial scan                                          *)

NameData == <<"d","a","t","a">>

NameSales == <<"d","a","t","a","_","s","a","l","e","s","_","2","0","2","4">>

NameUsers == <<"d","a","t","a","_","u","s","e","r","s","_","a","c","t","i","v","e">>

ScanNames == (PathData :> NameData) @@ (PathSales :> NameSales) @@ (PathUsers :> NameUsers)

\* C17: every file the initial scan loads is a table named from its path
\* relative to the root: data/sales/2024.csv is data_sales_2024,
\* data/users/active.csv is data_users_active, data.csv is data; and the
\* scan makes no table under another name.
C17_ScanNames ==
    lastOp.op = "New" =>
        /\ \A i \in 1..Len(lastOp.loaded) :
              LET path == lastOp.loaded[i]
              IN /\ ScanNames[path] \in DOMAIN tables
                 /\ ScanNames[path] \in Range(ListTables(Manager))
                 /\ csvql_metadata[ScanNames[path]].file_path = path
        /\ DOMAIN tables \subseteq {ScanNames[path] : path \in ScanPaths}

\* One scan has loaded the three files
C17_Witness ==
    /\ lastOp.op = "New"
    /\ {lastOp.loaded[i] : i \in 1..Len(lastOp.loaded)} = ScanPaths
    /\ Range(ListTables(Manager)) = {NameData, NameSales, NameUsers}

\* C20: a New that finds the tree as the scan of the previous run left it
\* hands no file to ParseFile, loads none, and leaves the store as db.New
\* opened it.
C20_RestartScansNothing ==
    (lastOp.op = "New" /\ lastOp.restartOf = lastOp.scanned) =>
        /\ lastOp.parsed = <<>>
        /\ lastOp.loaded = <<>>
        /\ Manager = lastOp.opened

----------------------------------------------------------------------------
(* Properties of the name resolver                                         *)

NameAX == <<"a","_","x">>

NameBX == <<"b","_","x">>

\* The paths of S whose file name folds to the same base name as path's
Sharers(path, S) == {q \in S : GetBaseTableName(q) = GetBaseTableName(path)}

\* C14: the resolver maps every path of the set; a path whose base name no
\* other path of the set has gets the base name, every path of a group
\* that shares a base name, a root-level one included, gets the name
\* folded from its path relative to the root; a/x.csv and b/x.csv become
\* a_x and b_x, and y.csv beside them becomes y.
C14_ResolvePolicy ==
    lastOp.op = "Resolve" =>
        /\ DOMAIN lastOp.names = lastOp.set
        /\ \A path \in lastOp.set :
              lastOp.names[path] =
                  IF Sharers(path, lastOp.set) = {path}
                  THEN GetBaseTableName(path)
                  ELSE GetFullTableName(path, rootDir)
        /\ PathX \in lastOp.set /\ Sharers(PathX, lastOp.set) # {PathX} =>
              lastOp.names[PathX] = <<"x">>
        /\ {PathAX, PathBX} \subseteq lastOp.set =>
              lastOp.names[PathAX] = NameAX /\ lastOp.names[PathBX] = NameBX
        /\ PathRY \in lastOp.set => lastOp.names[PathRY] = <<"y">>

\* a/x.csv, b/x.csv and y.csv have been resolved together
C14_Witness ==
    /\ lastOp.op = "Resolve"
    /\ lastOp.set = {PathAX, PathBX, PathRY}
    /\ lastOp.names[PathAX] = NameAX
    /\ lastOp.names[PathRY] = <<"y">>

\* C15: resolving the same set again, in whatever list order, gives the
\* same mapping; and resolving after one path was deleted gives its base
\* name to every remaining path whose base name no other remaining path
\* has.
C15_ResolveDeterministic ==
    lastOp.op = "Resolve" =>
        /\ \A filePaths \in OrdersOf(lastOp.set) :
              ResolveTableNames(filePaths, rootDir) = lastOp.names
        /\ \A before \in lastOp.prev :
              /\ before.set = lastOp.set => before.names = lastOp.names
              /\ \A path \in lastOp.set :
                    Sharers(path, lastOp.set) = {path} =>
                        lastOp.names[path] = GetBaseTableName(path)

\* After one of two paths that shared a base name was deleted, the other,
\* which had its full name, has been resolved to the base name
C15_Witness ==
    /\ lastOp.op = "Resolve"
    /\ \E before \in lastOp.prev, path \in lastOp.set :
          /\ before.set # lastOp.set
          /\ before.names[path] = GetFullTableName(path, rootDir)
          /\ before.names[path] # lastOp.names[path]
          /\ lastOp.names[path] = GetBaseTableName(path)

----------------------------------------------------------------------------
(* Properties of the Watcher                                               *)

TasksOf(p) == {i \in 1..Len(tasks) : tasks[i].path = p}

CallbacksOf(p, kind) ==
    {k \in 1..Len(callbacks) : callbacks[k].path = p /\ callbacks[k].event = kind}

\* C1: no two reconciliations of one path are in progress together.
C1_OnePerPath ==
    \A i, j \in 1..Len(tasks) :
        (i # j /\ tasks[i].path = tasks[j].path) =>
            (tasks[i].pc = "done" \/ tasks[j].pc = "done")

\* C2: once Stop has returned, every reconciliation that was dispatched has
\* finished.
C2_StopJoins ==
    stopPc = "returned" => \A i \in 1..Len(tasks) : tasks[i].pc = "done"

\* C4: every onChange call comes from a reconciliation whose RemoveTable
\* (for DELETE) or LoadFile (for UPDATE) had already returned without
\* error, and a reconciliation whose parse, load or remove failed makes no
\* call.
C4_CallbackAfterCommit ==
    /\ \A k \in 1..Len(callbacks) :
          LET t == tasks[callbacks[k].task]
          IN /\ t.err = NoErr
             /\ t.pc = "done"
             /\ t.kind = callbacks[k].event
             /\ t.path = callbacks[k].path
             /\ t.kind = "UPDATE" => t.parsed.err = NoErr
    /\ \A i \in 1..Len(tasks) :
          tasks[i].err # NoErr =>
              /\ tasks[i].pc = "done"
              /\ \A k \in 1..Len(callbacks) : callbacks[k].task # i

\* One reconciliation has called back and another has failed in LoadFile
C4_Witness ==
    /\ \E k \in 1..Len(callbacks) : callbacks[k].event = "UPDATE"
    /\ \E i \in 1..Len(tasks) : tasks[i].err = "load"

\* Every change of p so far was a write that left a parsable file, the
\* watcher has received the event of each, and the first and the last of
\* these events are less than the quiet window apart
Burst(p) ==
    /\ \A k \in 1..Len(events) : events[k].Name # p
    /\ hEvents[p].clean
    /\ hEvents[p].span >= 0
    /\ hEvents[p].span < QuietWindow

\* Nothing is queued or pending for p and its reconciliations have finished
Settled(p) ==
    /\ events = <<>>
    /\ p \notin DOMAIN pending
    /\ \A i \in TasksOf(p) : tasks[i].pc = "done"

\* C5: while all the write events of a path lie within less than the quiet
\* window, the path is reconciled at most once, with at most one UPDATE and
\* no DELETE callback; once it has settled it has been reconciled exactly
\* once, with exactly one UPDATE callback unless LoadFile reported an error.
C5_DebounceCollapses ==
    \A p \in DOMAIN hEvents :
        Burst(p) =>
            /\ Cardinality(TasksOf(p)) <= 1
            /\ Cardinality(CallbacksOf(p, "UPDATE")) <= 1
            /\ CallbacksOf(p, "DELETE") = {}
            /\ Settled(p) =>
                  /\ Cardinality(TasksOf(p)) = 1
                  /\ \A i \in TasksOf(p) :
                        tasks[i].err # "load" => Cardinality(CallbacksOf(p, "UPDATE")) = 1

\* Two or more writes at different times within the window, reconciled once
C5_Witness ==
    \E p \in DOMAIN hEvents :
        /\ Burst(p)
        /\ hEvents[p].span >= 1
        /\ Settled(p)
        /\ Cardinality(TasksOf(p)) = 1
        /\ Cardinality(CallbacksOf(p, "UPDATE")) = 1

\* C6: a reconciliation is dispatched only when the latest event of its
\* path is older than the quiet window, and the time recorded for a pending
\* path is the time of its latest event.
C6_PromotedOnlyWhenQuiet ==
    /\ \A i \in 1..Len(tasks) : tasks[i].sinceEvent > QuietWindow
    /\ \A p \in DOMAIN pending : pending[p] = hEvents[p].age

\* A path that had events at different times was dispatched once, after
\* the last of them
C6_Witness ==
    \E p \in DOMAIN hEvents :
        /\ hEvents[p].span >= 1
        /\ p \notin DOMAIN pending
        /\ events = <<>>
        /\ Cardinality(TasksOf(p)) = 1

\* The table of p holds what a load of the file's present content gives
Loaded(p) ==
    LET parsed == ParseFile(p, rootDir, files)
        want == LoadFile(EmptyManager, parsed, "none").m
        t == parsed.TableName
    IN /\ t \in DOMAIN tables
       /\ t \in DOMAIN csvql_metadata
       /\ t \in DOMAIN metadata
       /\ tables[t] = want.tables[t]
       /\ csvql_metadata[t] = want.csvql_metadata[t]
       /\ metadata[t] = want.metadata[t]

\* The watcher runs, no event is queued or pending, every reconciliation
\* has finished and none reported an error
Quiescent ==
    /\ watchPc = "running"
    /\ ~done
    /\ events = <<>>
    /\ pending = <<>>
    /\ \A i \in 1..Len(tasks) : tasks[i].pc = "done" /\ tasks[i].err = NoErr

\* C7: once events have stopped and the watcher has come to rest, the table
\* of every parsable file that had an event holds the file's final content
\* and stamp.
C7_Converges ==
    Quiescent =>
        \A p \in DOMAIN files :
            (hEvents[p].span >= 0 /\ ParseFile(p, rootDir, files).err = NoErr) => Loaded(p)

\* C13: when the file of a tracked table has been removed, once, and the
\* watcher has come to rest, there has been exactly one DELETE callback for
\* the path, ListTables no longer names the table and the table is gone.
C13_DeleteOnce ==
    \A p \in DOMAIN hEvents :
        (/\ hEvents[p].removes = 1
         /\ hEvents[p].tracked
         /\ p \notin DOMAIN files
         /\ Quiescent) =>
            /\ Cardinality(CallbacksOf(p, "DELETE")) = 1
            /\ GetTableName(p, rootDir) \notin Range(ListTables(Manager))
            /\ GetTableName(p, rootDir) \notin DOMAIN tables

\* C16: a reconciliation that loaded a file whose base name no other file
\* of the tree has, loaded it under that base name.
C16_SubdirBaseName ==
    \A i \in 1..Len(tasks) :
        (/\ tasks[i].kind = "UPDATE"
         /\ tasks[i].pc \in {"notify", "done"}
         /\ tasks[i].err = NoErr
         /\ Sharers(tasks[i].path, DOMAIN files) \subseteq {tasks[i].path}) =>
            tasks[i].parsed.TableName = GetBaseTableName(tasks[i].path)

\* C22: ListTables returns exactly the table names that have a row in
\* _csvql_metadata, each once, in ascending order; nothing on a fresh store.
C22_ListTablesSorted ==
    LET l == ListTables(Manager)
    IN /\ Range(l) = DOMAIN csvql_metadata
       /\ Len(l) = Cardinality(DOMAIN csvql_metadata)
       /\ \A i \in 1..(Len(l) - 1) : StringLess(l[i], l[i + 1])
       /\ (lastOp.op = "New" => l = <<>>)

\* "t" is loaded after "u" and is still listed first
C22_Witness ==
    /\ lastOp.op = "LoadFile"
    /\ lastOp.err = NoErr
    /\ lastOp.parsed.TableName = <<"t">>
    /\ DOMAIN lastOp.before.csvql_metadata = {<<"u">>}
    /\ ListTables(Manager) = << <<"t">>, <<"u">> >>

\* C23: Scan visits every recognized file of the tree whatever happens to
\* the others, warns only about files that do not parse or whose load the
\* engine fails, leaves every other file loaded under its stamp, and
\* returns no error.
C23_ScanContinues ==
    lastOp.op = "New" =>
        LET fs == CHOOSE tree \in lastOp.scanned : TRUE
        IN /\ lastOp.err = NoErr
           /\ lastOp.parsed = ScanDirectory(fs, WalkOrder)
           /\ \A path \in DOMAIN fs :
                 LET parsed == ParseFile(path, rootDir, fs)
                 IN IF parsed.err = NoErr /\ lastOp.fail[path] = "none"
                    THEN /\ path \notin Range(lastOp.warned)
                         /\ parsed.TableName \in DOMAIN tables
                         /\ parsed.TableName \in DOMAIN csvql_metadata
                         /\ csvql_metadata[parsed.TableName].file_path = path
                         /\ csvql_metadata[parsed.TableName].mod_time = parsed.ModTime
                    ELSE path \notin Range(lastOp.loaded)

\* The first file of the walk does not parse, the load of the second
\* fails, and the third is loaded
C23_Witness ==
    /\ lastOp.op = "New"
    /\ lastOp.warned = <<PathSales, PathUsers>>
    /\ lastOp.fail[PathUsers] = "commit"
    /\ PathSales \in DOMAIN files
    /\ ParseFile(PathSales, rootDir, files).err # NoErr
    /\ lastOp.loaded = <<PathData>>
    /\ NameData \in DOMAIN tables

\* C24: the step of a reconciliation in which ParseFile fails ends that
\* reconciliation and changes neither the store, the callbacks, the pending
\* set, the event queue nor any other reconciliation; the finished
\* reconciliation has called back nothing.
C24_ParseFailureIsInert ==
    /\ [](\A i \in 1..Len(tasks) :
            (tasks[i].kind = "UPDATE" /\ tasks[i].parsed.err \notin {NoErr, "unset"}) =>
                /\ tasks[i].pc = "done"
                /\ \A k \in 1..Len(callbacks) : callbacks[k].task # i)
    /\ [][\A i \in 1..Len(tasks) :
            (tasks[i].pc = "parse" /\ tasks'[i].parsed.err \notin {NoErr, "unset"}) =>
                /\ tasks'[i].pc = "done"
                /\ UNCHANGED <<storeVars, callbacks, pending, events>>
                /\ \A j \in (1..Len(tasks)) \ {i} : tasks'[j] = tasks[j]]_vars

\* The tracked x.csv was emptied; its reconciliation has ended on the parse
\* error and the table loaded from the earlier content is still there
C24_Witness ==
    \E i \in 1..Len(tasks) :
        /\ tasks[i].pc = "done"
        /\ tasks[i].kind = "UPDATE"
        /\ tasks[i].parsed.err \notin {NoErr, "unset"}
        /\ tasks[i].path \in DOMAIN files
        /\ files[tasks[i].path].content = <<>>
        /\ Tracked(tasks[i].path)
        /\ metadata[GetTableName(tasks[i].path, rootDir)] = 0
        /\ tasks[i].path \notin DOMAIN pending
        /\ callbacks = <<>>
        /\ Len(tasks) = 2

\* C30: a reconciliation goes from its parsed file to the callback only
\* when NeedsUpdate holds for the table and the stamp it parsed, that is,
\* it loads nothing when the stored stamp equals the file's.
C30_ChecksBeforeLoad ==
    [][\A i \in 1..Len(tasks) :
          (tasks[i].pc = "load" /\ tasks'[i].pc = "notify") =>
              NeedsUpdate(Manager, tasks[i].parsed.TableName, tasks[i].parsed.ModTime)]_vars

\* C28: no call of Close (through it, of Stop) on an instance with a
\* running watcher ends in a panic.
C28_CloseTwiceNoPanic == stopPc # "panicked"

\* C27: a Stop called while no event waits, nothing is pending and no
\* reconciliation is in flight returns.
C27_StopReturns ==
    (/\ stopPc = "waiting"
     /\ events = <<>>
     /\ pending = <<>>
     /\ \A i \in 1..Len(tasks) : tasks[i].pc = "done") ~> (stopPc = "returned")

\* Stop has returned on a watcher that had reconciled a file and was at rest
C27_Witness ==
    /\ stopPc = "returned"
    /\ watchPc = "exited"
    /\ events = <<>>
    /\ pending = <<>>
    /\ Len(tasks) > 0
    /\ \A i \in 1..Len(tasks) : tasks[i].pc = "done"

\* C21: while a LoadFile or RemoveTable is between taking m.mu and
\* releasing it, no other call is; and every read saw the table names of
\* the data tables, of _csvql_metadata and of the map agree, that is, no
\* read fell between the statements of a writer.
C21_Exclusion ==
    /\ \A i, j \in 1..Len(calls) :
          (i # j /\ calls[i].op \in Writers /\ InSection(calls[i])) => ~InSection(calls[j])
    /\ \A i \in 1..Len(calls) :
          (calls[i].op \in Readers /\ calls[i].pc \in {"out", "ret"}) => calls[i].whole

\* A RemoveTable has dropped the table and not yet deleted its row, and a
\* Query waits at its RLock
C21_Witness ==
    \E i, j \in 1..Len(calls) :
        /\ calls[i].op = "RemoveTable"
        /\ calls[i].pc = "in2"
        /\ ~Whole(Manager)
        /\ calls[j].op = "Query"
        /\ calls[j].pc = "start"

\* C29: a reconciliation that stays inside LoadFile or RemoveTable keeps no
\* reconciliation of another path from going on.
C29_HangBlocksOnlyItself ==
    \A i, j \in 1..Len(calls) :
        (/\ i # j
         /\ calls[i].op \in Writers /\ InSection(calls[i])
         /\ calls[j].op \in Writers /\ calls[j].arg # calls[i].arg
         /\ calls[j].pc = "start") => CanLock(mu)

\* C25: a path whose lowered extension is neither .csv nor .tsv is never in
\* pending, never the path of a reconciliation or of a callback, and the
\* intake of its event leaves the store, pending, the reconciliations and
\* the callbacks as they were; the intake of an event of a .csv or .tsv
\* path leaves the path in pending with the time of the intake.
C25_OnlyRecognized ==
    /\ [](\A p \in DOMAIN hEvents :
            ToLower(Ext(p)) \notin {<<".","c","s","v">>, <<".","t","s","v">>} =>
                /\ p \notin DOMAIN pending
                /\ \A i \in 1..Len(tasks) : tasks[i].path # p
                /\ \A k \in 1..Len(callbacks) : callbacks[k].path # p)
    /\ [][(watchPc = "running" /\ events # <<>> /\ events' = Tail(events)) =>
            IF ToLower(Ext(Head(events).Name)) \in {<<".","c","s","v">>, <<".","t","s","v">>}
            THEN /\ Head(events).Name \in DOMAIN pending'
                 /\ pending'[Head(events).Name] = 0
            ELSE UNCHANGED <<storeVars, pending, tasks, callbacks>>]_vars

\* n.txt was written, the watch loop has received its event, and nothing
\* is pending or dispatched
C25_Witness ==
    /\ PathN \in DOMAIN files
    /\ watchPc = "running"
    /\ events = <<>>
    /\ ticker < SweepPeriod
    /\ pending = <<>>
    /\ tasks = <<>>
    /\ callbacks = <<>>

\* C26: a directory made under the root is watched once its event is taken
\* in, no callback names it, and every recognized file written into it has
\* its event delivered to the watch loop.
C26_SubdirFilesObserved ==
    /\ \A d \in dirs : d \in watchSet \/ \E k \in 1..Len(events) : events[k].Name = d
    /\ \A k \in 1..Len(callbacks) : callbacks[k].path \notin dirs
    /\ \A p \in DOMAIN files :
          (IsRecognized(p) /\ Dir(p) \in NewDirs) =>
              \/ \E k \in 1..Len(events) : events[k].Name = p
              \/ hEvents[p].span >= 0

\* C36: the stamp committed for a table never goes back: no LoadFile
\* replaces the row of a table by one with an earlier modification time.
C36_NoStaleOverwrite ==
    [][\A t \in DOMAIN csvql_metadata :
          t \in DOMAIN csvql_metadata' =>
              csvql_metadata'[t].mod_time >= csvql_metadata[t].mod_time]_vars

\* C38: after New has returned, every listed table has a source file that
\* exists in the tree New scanned.
C38_ListedFilesExist ==
    lastOp.op = "New" =>
        \A fs \in lastOp.scanned :
            \A i \in 1..Len(ListTables(Manager)) :
                csvql_metadata[ListTables(Manager)[i]].file_path \in DOMAIN fs

\* C34: no two rows of _csvql_metadata name the same source file.
C34_OneTablePerPath ==
    \A t, u \in DOMAIN csvql_metadata :
        csvql_metadata[t].file_path = csvql_metadata[u].file_path => t = u

\* C32: in the column names LoadFile derives from a header row, the first
\* occurrence of a sanitized name keeps the name and its k-th later
\* occurrence is the name followed by _k.
C32_DedupNumbering ==
    lastOp.op = "LoadFile" =>
        LET headers == lastOp.parsed.Headers
            columnNames == BuildColumnNames(headers, <<>>)
            earlier(i) == {j \in 1..(i - 1) :
                             SanitizeColumnName(headers[j]) = SanitizeColumnName(headers[i])}
        IN \A i \in 1..Len(headers) :
              columnNames[i] =
                  IF earlier(i) = {} THEN SanitizeColumnName(headers[i])
                  ELSE SanitizeColumnName(headers[i]) \o <<"_">> \o Itoa(Cardinality(earlier(i)))

----------------------------------------------------------------------------
(* Direct calls of GetBaseTableName and GetFullTableName on one path below *)
(* the root                                                                *)

FoldDirs == {<<>>,
             <<"s","u","b","/">>,
             <<"1","d","/">>,
             <<"M","y","-","D","i","r","/">>,
             <<"d","i","r","/","s","u","b"," ","d","i","r","/">>,
             <<"a",".","b","/">>}

FoldFiles == {<<"f","i","l","e",".","t","s","v">>,
              <<"1","2","3","d","a","t","a",".","c","s","v">>,
              <<"a",".","b",".","c",".","c","s","v">>,
              <<"m","y","-","f","i","l","e",".","c","s","v">>,
              <<"d","a","t","a",".","c","s","v">>,
              <<"D","a","t","a",".","C","S","V">>,
              <<"x"," ","y",".","c","s","v">>,
              <<"9",".","c","s","v">>,
              <<"n","o","e","x","t">>}

FoldPaths == {rootDir \o <<Separator>> \o d \o f : d \in FoldDirs, f \in FoldFiles}

FoldInit ==
    /\ WatchInit
    /\ tables = <<>>
    /\ csvql_metadata = <<>>
    /\ metadata = <<>>
    /\ hStamp = <<>>
    /\ \E path \in FoldPaths : lastOp = [op |-> "path", path |-> path]

\* GetBaseTableName(filePath) and GetFullTableName(filePath, rootDir)
FoldName ==
    /\ lastOp.op = "path"
    /\ lastOp' = [op |-> "names", path |-> lastOp.path,
                  base |-> GetBaseTableName(lastOp.path),
                  full |-> GetFullTableName(lastOp.path, rootDir)]
    /\ UNCHANGED <<storeVars, hStamp, watchVars>>
    /\ UNCHANGED <<dirVars, muVars>>

FoldSpec == FoldInit /\ [][FoldName]_vars

\* C33: the base name and the full name derived from a path hold no
\* separator, hyphen, space, dot or upper-case letter and do not start with
\* a digit; the extension is gone, and a name that would start with a digit
\* starts with an underscore instead (sub/file.tsv gives sub_file,
\* 123data.csv gives _123data, a.b.c.csv gives a_b_c).
C33_Folded ==
    lastOp.op = "names" =>
        LET rel == SubSeq(lastOp.path, Len(rootDir) + 2, Len(lastOp.path))
            stem(p) == SubSeq(p, 1, Len(p) - Len(Ext(p)))
            clean(n) == /\ \A i \in 1..Len(n) :
                              /\ n[i] \notin {Separator, "-", " ", "."}
                              /\ n[i] \notin Range(Upper)
                        /\ Len(n) > 0 => ~IsDigit(n[1])
            folds(n, p) == IF IsDigit(p[1])
                           THEN Len(n) = Len(stem(p)) + 1 /\ n[1] = "_"
                           ELSE Len(n) = Len(stem(p))
        IN /\ clean(lastOp.base) /\ clean(lastOp.full)
           /\ folds(lastOp.base, Base(lastOp.path))
           /\ folds(lastOp.full, rel)
           /\ rel = <<"s","u","b","/","f","i","l","e",".","t","s","v">>
                 => lastOp.full = <<"s","u","b","_","f","i","l","e">>
           /\ rel = <<"1","2","3","d","a","t","a",".","c","s","v">>
                 => lastOp.full = <<"_","1","2","3","d","a","t","a">>
           /\ rel = <<"a",".","b",".","c",".","c","s","v">>
                 => lastOp.full = <<"a","_","b","_","c">>

C33_Witness ==
    /\ lastOp.op = "names"
    /\ lastOp.path = rootDir \o <<"/","M","y","-","D","i","r","/","1","2","3","d","a","t","a",".","c","s","v">>
    /\ lastOp.base = <<"_","1","2","3","d","a","t","a">>
    /\ lastOp.full = <<"m","y","_","d","i","r","_","1","2","3","d","a","t","a">>

\* C35: after any sequence of Store calls, failed ones included, the
\* in-memory map holds exactly the table names and stamps of the rows of
\* _csvql_metadata, which is the map a restart would build.
C35_MapEqualsIndex ==
    metadata = loadMetadata(csvql_metadata)

\* C37: a reconciliation of a missing path goes on to its DELETE callback
\* only when the store held the path's table before the reconciliation
\* removed it.
C37_DeleteOnlyOfLoaded ==
    [][\A i \in DOMAIN tasks :
          (/\ i \in DOMAIN tasks'
           /\ tasks[i].pc = "remove"
           /\ tasks'[i].pc = "notify")
          => GetTableName(tasks[i].path, rootDir) \in DOMAIN tables]_vars

----------------------------------------------------------------------------
(* The watcher's reconciliations run one at a time, each processFile as a  *)
(* whole, on a tree in which two paths fold to one table name              *)

PathDashX == <<"/","r","/","a","-","x",".","c","s","v">>

\* filepath.Walk visits the entries of a directory in lexical order
SerialWalk == <<PathAX, PathDashX, PathRY>>

SerialPaths == {PathAX, PathDashX, PathRY}

SerialInit ==
    /\ \E S \in SUBSET SerialPaths :
          /\ files = [path \in S |-> FirstFile]
          /\ \E m \in {Scan(DbNew(EmptyManager), files, SerialWalk,
                             [path \in SerialPaths |-> "none"]).m} :
                /\ tables = m.tables
                /\ csvql_metadata = m.csvql_metadata
                /\ metadata = m.metadata
                /\ hStamp = m.metadata
    /\ lastOp = [op |-> "New", n |-> 0]
    /\ hEvents = <<>>
    /\ dirs = {rootDir, Dir(PathAX)}
    /\ watchSet = dirs
    /\ NoCalls
    /\ IdleWatcher

\* A recognized file is written; its event reaches the pending map
SerialWrite(path, c) ==
    /\ nWrites < MaxEvents
    /\ nWrites' = nWrites + 1
    /\ files' = Put(files, path, [content |-> c, mtime |-> nWrites + 1])
    /\ pending' = Put(pending, path, 0)
    /\ UNCHANGED <<storeVars, lastOp, hStamp, ticker, watchPc, done, wg, stopPc,
                   fsClosed, tasks, callbacks, events, hEvents>>
    /\ UNCHANGED <<dirVars, muVars>>

\* A recognized file is deleted; its event reaches the pending map
SerialRemove(path) ==
    /\ nWrites < MaxEvents
    /\ path \in DOMAIN files
    /\ nWrites' = nWrites + 1
    /\ files' = Del(files, path)
    /\ pending' = Put(pending, path, 0)
    /\ UNCHANGED <<storeVars, lastOp, hStamp, ticker, watchPc, done, wg, stopPc,
                   fsClosed, tasks, callbacks, events, hEvents>>
    /\ UNCHANGED <<dirVars, muVars>>

\* The sweep promotes the entry of path and processFile(path) runs to its end
processFile(path, failAt) ==
    /\ path \in DOMAIN pending
    /\ pending' = Del(pending, path)
    /\ IF path \notin DOMAIN files
       THEN /\ failAt \in RemoveFailPoints
            /\ LET tableName == GetTableName(path, rootDir)
                   r == RemoveTable(Manager, tableName, failAt)
               IN /\ tables' = r.m.tables
                  /\ csvql_metadata' = r.m.csvql_metadata
                  /\ metadata' = r.m.metadata
                  /\ hStamp' = IF r.err = NoErr THEN Del(hStamp, tableName) ELSE hStamp
                  /\ callbacks' = IF AfterRemove(r.err) = "notify"
                                  THEN Append(callbacks, [event |-> "DELETE", path |-> path,
                                                          task |-> 0])
                                  ELSE callbacks
                  /\ lastOp' = [op |-> "processFile", n |-> lastOp.n + 1, path |-> path,
                                kind |-> "DELETE", err |-> r.err, before |-> Manager]
       ELSE LET parsed == ParseFile(path, rootDir, files)
            IN IF AfterParse(parsed.err) = "done"
               THEN /\ failAt = "none"
                    /\ lastOp' = [op |-> "processFile", n |-> lastOp.n + 1, path |-> path,
                                  kind |-> "UPDATE", err |-> parsed.err, before |-> Manager]
                    /\ UNCHANGED <<storeVars, hStamp, callbacks>>
               ELSE /\ failAt \in LoadFailPoints(parsed)
                    /\ LET r == LoadFile(Manager, parsed, failAt)
                       IN /\ tables' = r.m.tables
                          /\ csvql_metadata' = r.m.csvql_metadata
                          /\ metadata' = r.m.metadata
                          /\ hStamp' = IF r.err = NoErr
                                       THEN Put(hStamp, parsed.TableName, parsed.ModTime)
                                       ELSE hStamp
                          /\ callbacks' = IF AfterLoad(r.err) = "notify"
                                          THEN Append(callbacks,
                                                      [event |-> "UPDATE", path |-> path,
                                                       task |-> 0])
                                          ELSE callbacks
                          /\ lastOp' = [op |-> "processFile", n |-> lastOp.n + 1,
                                        path |-> path, kind |-> "UPDATE", err |-> r.err,
                                        before |-> Manager]
    /\ UNCHANGED <<files, nWrites, ticker, watchPc, done, wg, stopPc, fsClosed, tasks,
                   events, hEvents>>
    /\ UNCHANGED <<dirVars, muVars>>

SerialNext ==
    \/ \E path \in SerialPaths, c \in FileContents(nWrites + 1) : SerialWrite(path, c)
    \/ \E path \in SerialPaths : SerialRemove(path)
    \/ \E path \in SerialPaths, failAt \in AllLoadFailPoints \cup RemoveFailPoints :
          processFile(path, failAt)

SerialSpec == SerialInit /\ [][SerialNext]_vars

\* C31: a reconciliation of a missing path removes every table recorded
\* for that path and no table recorded for another path.
C31_RemovesRecordedTable ==
    (lastOp.op = "processFile" /\ lastOp.kind = "DELETE" /\ lastOp.err = NoErr) =>
        /\ \A t \in DOMAIN lastOp.before.tables \ DOMAIN tables :
              /\ t \in DOMAIN lastOp.before.csvql_metadata
              /\ lastOp.before.csvql_metadata[t].file_path = lastOp.path
        /\ \A t \in DOMAIN lastOp.before.csvql_metadata :
              lastOp.before.csvql_metadata[t].file_path = lastOp.path
                  => t \notin DOMAIN tables

\* C39: a reconciliation of path P leaves alone every table recorded for
\* another file that exists: the table, its rows and its metadata row are
\* the same after the reconciliation as before it.
C39_OtherFilesUntouched ==
    lastOp.op = "processFile" =>
        \A t \in DOMAIN lastOp.before.csvql_metadata \cap DOMAIN lastOp.before.tables :
            (/\ lastOp.before.csvql_metadata[t].file_path # lastOp.path
             /\ lastOp.before.csvql_metadata[t].file_path \in DOMAIN files)
            => /\ t \in DOMAIN tables
               /\ t \in DOMAIN csvql_metadata
               /\ tables[t] = lastOp.before.tables[t]
               /\ csvql_metadata[t] = lastOp.before.csvql_metadata[t]

====
